---- MODULE Spec2Model ----
(***************************************************************************)
(* Model of the Zyxel NWA50AX SSH API client (class ZyxelSSHAPI).  The      *)
(* repository ships the client twice:                                       *)
(*   custom_components/ha_zyxel/zyxel_ssh_api.py            ("ha_zyxel")     *)
(*   custom_components/ha_zyxel_NWA50AX_SSH/zyxel_ssh_api.py                 *)
(*                                                ("ha_zyxel_NWA50AX_SSH")  *)
(* The two differ in the import flags, async_connect, async_disconnect and  *)
(* _execute_command_sync; the variable `module` selects the copy.           *)
(*                                                                          *)
(* A response text is a sequence of lines, a line is a record with the      *)
(* label the parsers' patterns look for; the empty text is <<>>.            *)
(***************************************************************************)
EXTENDS Integers, Sequences, FiniteSets, TLC

VARIABLES
    module,        \* which copy of zyxel_ssh_api.py is loaded
    HAS_ASYNCSSH,  \* module flag: asyncssh imported
    HAS_PARAMIKO,  \* module flag: "True", "False", or "unbound" (name never assigned)
    _conn,         \* self._conn: NoConn (None) or the id of the held connection
    conns,         \* connections to the device opened by this object and not closed
    pc,            \* "idle", "get_data", "get_data_done", "toggle", "toggle_sleep", "toggle_done"
    idx,           \* number of commands already issued by the running coroutine
    enable,        \* argument of the running async_toggle_guest_ssid
    sent,          \* commands issued so far by the running coroutine, in order
    resp,          \* values async_execute_command returned to the running async_get_data
    data,          \* local `data` of async_get_data; after the return, the record returned
    faults,        \* commands of the running async_get_data that did not simply print their text
    filledBefore,  \* history: an earlier async_get_data call returned every section filled
    last,          \* outcome of the most recent API call (history for the properties)
    \* the plugin around the client (src/ha_zyxel)
    entry,         \* config entry: "not_loaded", "connected" (first refresh pending),
                   \*   "loaded", "setup_retry", "setup_error", "failed_unload"
    setup,         \* the last async_setup_entry: what failed and what it raised
    coordinator,   \* the DataUpdateCoordinator of the entry and its running update
    platforms,     \* sensor, button and switch platforms are set up
    _attr_is_on,   \* ZyxelGuestSSIDSwitch._attr_is_on
    commanded,     \* history: the state last commanded with success ("none", "on", "off")
    connectedOk,   \* history: async_connect returned True on the entry's API object
    \* two coroutines on one session
    act,           \* the entity action running beside the poll: position, command index
    inflight,      \* coroutines with a command sent and its response not yet received
    wire,          \* the last commands put on the session, with the coroutine of each
    \* the parsers taken alone
    text,          \* the device output handed to a parser
    parsed,        \* the parser applied last and what it returned
    \* the setup wizard (src/ha_zyxel/config_flow.py)
    flow           \* ZyxelConfigFlow: its step, the errors of the form, the entry created

\* the plugin's state and the state of the concurrent action
host == <<entry, setup, coordinator, platforms, _attr_is_on, commanded, connectedOk>>
race == <<act, inflight, wire>>
aside == <<text, parsed, flow>>

\* the variables of the API object and of the calls on it
object == <<module, HAS_ASYNCSSH, HAS_PARAMIKO, _conn, conns, pc, idx, enable, sent,
            resp, data, faults, filledBefore, last>>

vars == <<module, HAS_ASYNCSSH, HAS_PARAMIKO, _conn, conns, pc, idx, enable, sent, resp, data, faults, filledBefore, last, host, race, aside>>

----------------------------------------------------------------------------
(* Bounds *)

\* connection ids available; a connect is only attempted while one is free
MaxConns == 2

ConnIds == 1..MaxConns

\* Spec: in one async_get_data call, at most this many commands meet an outcome
\* other than "ran and printed its text" (SpecPoll puts no limit)
MaxFaults == 2

----------------------------------------------------------------------------
(* Python values *)

\* Optional[str]: None, or a text
None == [some |-> FALSE, text |-> <<>>]
Some(t) == [some |-> TRUE, text |-> t]

\* `output is not None`
IsNotNone(r) == r.some

\* truth value of an Optional[str] in `if output:`: None and "" are falsy
Truthy(r) == r.some /\ r.text # <<>>

\* {} and dict item assignment
EmptyDict == [k \in {} |-> 0]
Put(d, k, v) == [y \in DOMAIN d \cup {k} |-> IF y = k THEN v ELSE d[y]]

----------------------------------------------------------------------------
(* Module import: the flags *)

\* ha_zyxel: both flags always assigned.  ha_zyxel_NWA50AX_SSH: paramiko is
\* only tried, and HAS_PARAMIKO only assigned, when importing asyncssh failed.
ImportFlags(m, asyncsshInstalled, paramikoInstalled) ==
    IF m = "ha_zyxel"
    THEN [asyncssh |-> asyncsshInstalled,
          paramiko |-> IF paramikoInstalled THEN "True" ELSE "False"]
    ELSE [asyncssh |-> asyncsshInstalled,
          paramiko |-> IF asyncsshInstalled THEN "unbound"
                       ELSE IF paramikoInstalled THEN "True" ELSE "False"]

\* ZyxelSSHAPI.__init__ raises ImportError when neither flag is set
\* (`not HAS_ASYNCSSH and not HAS_PARAMIKO`, left operand evaluated first)
InitRaises(flags) == ~flags.asyncssh /\ flags.paramiko = "False"

----------------------------------------------------------------------------
(* Transport outcomes (inputs of the environment) *)

ConnectOutcomes == {"ok", "refused", "timeout"}
CloseOutcomes == {"ok", "error"}
\* outcome of running one command on the device
RunKinds == {"ok", "exit_nonzero", "timeout", "transport_error"}

Line(l, v) == [label |-> l, val |-> v]

\* smallest free connection id (none free: no connection)
NewConn ==
    IF ConnIds \ conns = {} THEN 0
    ELSE CHOOSE c \in ConnIds \ conns : \A d \in ConnIds \ conns : c <= d

----------------------------------------------------------------------------
(* ZyxelSSHAPI: session manager and command runner *)

\* self._conn = None
NoConn == 0

\* What a call of the client did, before any effect: nothing returned, nothing
\* raised, handle and connections as they are, device not contacted.
\*   ret: returned Optional[str]      flag: returned bool
\*   raised: an exception leaves the function
\*   conn, conns: self._conn and the open connections afterwards
\*   contacted: the device was addressed (connect attempt or command sent)
\*   opened: a new connection to the device was established
\*   path: "asyncssh", "paramiko" (held handle), "temporary" (client of one command)
Base ==
    [ret |-> None, flag |-> FALSE, raised |-> FALSE, conn |-> _conn, conns |-> conns,
     contacted |-> FALSE, opened |-> FALSE, path |-> "none"]

\* `except Exception as err: ...; return None` of async_execute_command
ExceptReturnNone(r) ==
    IF r.raised THEN [r EXCEPT !.raised = FALSE, !.ret = None] ELSE r

\* `except Exception as err: ...; return False` of async_connect
ExceptReturnFalse(r) ==
    IF r.raised THEN [r EXCEPT !.raised = FALSE, !.flag = FALSE] ELSE r

\* asyncssh.connect / paramiko ssh.connect: a new connection on "ok", else an
\* exception (authentication or network failure, asyncio.TimeoutError)
OpenConnection(outcome, path) ==
    IF outcome = "ok"
    THEN [Base EXCEPT !.conn = NewConn, !.conns = conns \cup {NewConn}, !.flag = TRUE,
                      !.contacted = TRUE, !.opened = TRUE, !.path = path]
    ELSE [Base EXCEPT !.raised = TRUE, !.contacted = TRUE, !.path = path]

\* ha_zyxel: async_connect assigns self._conn on both transports
async_connect_ha_zyxel(outcome) ==
    ExceptReturnFalse(
        IF HAS_ASYNCSSH THEN OpenConnection(outcome, "asyncssh")
        ELSE IF HAS_PARAMIKO = "True" THEN OpenConnection(outcome, "paramiko")
        ELSE [Base EXCEPT !.raised = TRUE])

\* ha_zyxel_NWA50AX_SSH: without asyncssh nothing is opened and True is returned
async_connect_NWA50AX_SSH(outcome) ==
    ExceptReturnFalse(
        IF HAS_ASYNCSSH THEN OpenConnection(outcome, "asyncssh")
        ELSE [Base EXCEPT !.flag = TRUE])

async_connect(outcome) ==
    IF module = "ha_zyxel" THEN async_connect_ha_zyxel(outcome)
    ELSE async_connect_NWA50AX_SSH(outcome)

\* _disconnect_paramiko_sync: close(), any exception swallowed
_disconnect_paramiko_sync(close) ==
    IF _conn # NoConn /\ close = "ok" THEN conns \ {_conn} ELSE conns

\* ha_zyxel: close + wait_closed + `self._conn = None` inside try; an exception
\* of the close is logged and the assignment is skipped
async_disconnect_ha_zyxel(close) ==
    IF _conn # NoConn /\ HAS_ASYNCSSH
    THEN IF close = "ok"
         THEN [Base EXCEPT !.conn = NoConn, !.conns = conns \ {_conn},
                           !.contacted = TRUE, !.path = "asyncssh"]
         ELSE [Base EXCEPT !.contacted = TRUE, !.path = "asyncssh"]
    ELSE IF _conn # NoConn /\ HAS_PARAMIKO = "True"
    THEN [Base EXCEPT !.conn = NoConn, !.conns = _disconnect_paramiko_sync(close),
                      !.contacted = TRUE, !.path = "paramiko"]
    ELSE Base

\* ha_zyxel_NWA50AX_SSH: no try; an exception of the close leaves the function
async_disconnect_NWA50AX_SSH(close) ==
    IF _conn # NoConn /\ HAS_ASYNCSSH
    THEN IF close = "ok"
         THEN [Base EXCEPT !.conn = NoConn, !.conns = conns \ {_conn},
                           !.contacted = TRUE, !.path = "asyncssh"]
         ELSE [Base EXCEPT !.raised = TRUE, !.contacted = TRUE, !.path = "asyncssh"]
    ELSE Base

async_disconnect(close) ==
    IF module = "ha_zyxel" THEN async_disconnect_ha_zyxel(close)
    ELSE async_disconnect_NWA50AX_SSH(close)

\* await self._conn.run(command, check=True, timeout=15); return result.stdout
\* check=True raises ProcessError on a non-zero exit; a timeout and a lost
\* connection raise too
asyncssh_run(out) ==
    IF out.kind = "ok"
    THEN [Base EXCEPT !.ret = Some(out.stdout), !.contacted = TRUE, !.path = "asyncssh"]
    ELSE [Base EXCEPT !.raised = TRUE, !.contacted = TRUE, !.path = "asyncssh"]

\* exec_command(command, timeout=15); stdout.read().decode(): the exit status
\* is not looked at; a timeout and a lost connection raise
paramiko_exec(out, path) ==
    IF out.kind \in {"ok", "exit_nonzero"}
    THEN [Base EXCEPT !.ret = Some(out.stdout), !.contacted = TRUE, !.path = path]
    ELSE [Base EXCEPT !.raised = TRUE, !.contacted = TRUE, !.path = path]

\* a blocking runner that gives up when no client is held
sync_without_fallback(out, tmp) ==
    IF HAS_PARAMIKO = "True" /\ _conn # NoConn
    THEN ExceptReturnNone(paramiko_exec(out, "paramiko"))
    ELSE Base

\* a blocking runner that keeps the client it opened as the session handle
sync_keeping_client(out, tmp) ==
    IF HAS_PARAMIKO = "True" /\ _conn # NoConn
    THEN ExceptReturnNone(paramiko_exec(out, "paramiko"))
    ELSE IF tmp # "ok"
    THEN [Base EXCEPT !.contacted = TRUE, !.path = "temporary"]
    ELSE [ExceptReturnNone(paramiko_exec(out, "temporary"))
             EXCEPT !.opened = TRUE, !.conn = NewConn, !.conns = conns \cup {NewConn}]

\* ha_zyxel: the held client when there is one, else a client of its own for
\* this command, closed on both exits; nothing is raised
execute_command_sync_ha_zyxel(out, tmp) ==
    IF HAS_PARAMIKO = "True" /\ _conn # NoConn
    THEN ExceptReturnNone(paramiko_exec(out, "paramiko"))
    ELSE IF tmp # "ok"
    THEN [Base EXCEPT !.contacted = TRUE, !.path = "temporary"]
    ELSE [ExceptReturnNone(paramiko_exec(out, "temporary")) EXCEPT !.opened = TRUE]

\* ha_zyxel_NWA50AX_SSH: always a client of its own; ssh.close() only on the
\* success path, so a failed command leaves the connection it opened
execute_command_sync_NWA50AX_SSH(out, tmp) ==
    IF tmp # "ok"
    THEN [Base EXCEPT !.contacted = TRUE, !.path = "temporary"]
    ELSE LET r == paramiko_exec(out, "temporary")
         IN IF r.raised
            THEN [ExceptReturnNone(r) EXCEPT !.opened = TRUE, !.conns = conns \cup {NewConn}]
            ELSE [r EXCEPT !.opened = TRUE]

_execute_command_sync(out, tmp) ==
    IF module = "ha_zyxel" THEN execute_command_sync_ha_zyxel(out, tmp)
    ELSE execute_command_sync_NWA50AX_SSH(out, tmp)

\* the runner without its `except Exception` clause
execute_propagating(out, tmp) ==
    IF HAS_ASYNCSSH /\ _conn # NoConn THEN asyncssh_run(out)
    ELSE IF HAS_PARAMIKO = "unbound" THEN [Base EXCEPT !.raised = TRUE]
    ELSE IF HAS_PARAMIKO = "True" THEN _execute_command_sync(out, tmp)
    ELSE Base

\* async_execute_command; evaluating the unbound name HAS_PARAMIKO raises
\* NameError inside the try
async_execute_command(out, tmp) ==
    ExceptReturnNone(
        IF HAS_ASYNCSSH /\ _conn # NoConn THEN asyncssh_run(out)
        ELSE IF HAS_PARAMIKO = "unbound" THEN [Base EXCEPT !.raised = TRUE]
        ELSE IF HAS_PARAMIKO = "True" THEN _execute_command_sync(out, tmp)
        ELSE Base)

----------------------------------------------------------------------------
(* Output parsers.  re.search(label pattern) finds the first line carrying   *)
(* the label; re.findall finds all of them, in order.                        *)

RECURSIVE SumSeq(_)
SumSeq(s) == IF Len(s) = 0 THEN 0 ELSE Head(s) + SumSeq(Tail(s))

Min(S) == CHOOSE x \in S : \A y \in S : x <= y

\* the lines of `output` with label l, in order
FindAll(output, l) == SelectSeq(output, LAMBDA ln : ln.label = l)

\* the captured values of re.findall
Values(output, l) == [i \in 1..Len(FindAll(output, l)) |-> FindAll(output, l)[i].val]

Matches(output, l) == Len(FindAll(output, l)) > 0

\* group(1) of re.search when it matched, else the default the code keeps
Search(output, l, default) ==
    IF Matches(output, l) THEN FindAll(output, l)[1].val ELSE default

\* a version parser that starts from empty fields
parse_version_empty(output) ==
    [model |-> Search(output, "model", ""),
     firmware |-> Search(output, "firmware version", ""),
     build_date |-> Search(output, "build date", "")]

_parse_version(output) ==
    [model |-> Search(output, "model", "Unknown"),
     firmware |-> Search(output, "firmware version", "Unknown"),
     build_date |-> Search(output, "build date", "Unknown")]

\* an uptime parser that drops the days
uptime_without_days(output) ==
    IF Matches(output, "days time")
    THEN LET g == Search(output, "days time", <<0, 0, 0, 0>>)
         IN g[2] * 3600 + g[3] * 60 + g[4]
    ELSE IF Matches(output, "time")
    THEN LET g == Search(output, "time", <<0, 0, 0>>)
         IN g[1] * 3600 + g[2] * 60 + g[3]
    ELSE 0

\* an uptime line is "D days HH:MM:SS" (label "days time", val <<D,HH,MM,SS>>)
\* or "HH:MM:SS" (label "time", val <<HH,MM,SS>>); the days pattern is tried first
_parse_uptime(output) ==
    IF Matches(output, "days time")
    THEN LET g == Search(output, "days time", <<0, 0, 0, 0>>)
         IN g[1] * 86400 + g[2] * 3600 + g[3] * 60 + g[4]
    ELSE IF Matches(output, "time")
    THEN LET g == Search(output, "time", <<0, 0, 0>>)
         IN g[1] * 3600 + g[2] * 60 + g[3]
    ELSE 0

\* sum(...) // len(...) when the list is not empty, else the default 0
Average(values) == IF Len(values) > 0 THEN SumSeq(values) \div Len(values) ELSE 0

\* a CPU parser whose current-utilization pattern also matches the averaged lines
parse_cpu_any_line(output) ==
    LET all == SelectSeq(output, LAMBDA ln :
                   ln.label \in {"CPU core utilization", "CPU core utilization for 1 min",
                                 "CPU core utilization for 5 min"})
        values == [i \in 1..Len(all) |-> all[i].val]
    IN [current |-> Average(values),
        avg_1min |-> Average(Values(output, "CPU core utilization for 1 min")),
        avg_5min |-> Average(Values(output, "CPU core utilization for 5 min")),
        cores |-> values]

_parse_cpu(output) ==
    [current |-> Average(Values(output, "CPU core utilization")),
     avg_1min |-> Average(Values(output, "CPU core utilization for 1 min")),
     avg_5min |-> Average(Values(output, "CPU core utilization for 5 min")),
     cores |-> Values(output, "CPU core utilization")]

_parse_memory(output) == Search(output, "memory usage", 0)

\* str.upper() on the characters a MAC pattern admits
UpperChar(c) ==
    CASE c = "a" -> "A" [] c = "b" -> "B" [] c = "c" -> "C"
      [] c = "d" -> "D" [] c = "e" -> "E" [] c = "f" -> "F" [] OTHER -> c

\* a MAC left as it was written
NotUppered(chars) == chars

Upper(chars) == [i \in 1..Len(chars) |-> UpperChar(chars[i])]

HexChars ==
    {"0", "1", "2", "3", "4", "5", "6", "7", "8", "9", ":",
     "a", "b", "c", "d", "e", "f", "A", "B", "C", "D", "E", "F"}

\* ([\da-fA-F:]+): the longest run of admitted characters the value starts with
HexPrefix(chars) ==
    LET stop == {i \in 1..Len(chars) : chars[i] \notin HexChars}
    IN IF stop = {} THEN chars ELSE SubSeq(chars, 1, Min(stop) - 1)

\* re.split(r'index:\s*\d+', output)[1:]: the text after each "index:" line
\* up to the next one
client_blocks(output) ==
    LET starts == SelectSeq([i \in 1..Len(output) |-> i],
                            LAMBDA i : output[i].label = "index")
        block(p) == LET nxt == {q \in (p + 1)..Len(output) : output[q].label = "index"}
                    IN SubSeq(output, p + 1, IF nxt = {} THEN Len(output) ELSE Min(nxt) - 1)
    IN [k \in 1..Len(starts) |-> block(starts[k])]

\* label -> key of the fields copied as they are matched
ClientFields ==
    [ip |-> "IPv4", security |-> "Security", rssi_dbm |-> "RSSI dBm",
     rssi_percent |-> "RSSI", band |-> "Band", slot |-> "Slot", tx_rate |-> "TxRate",
     rx_rate |-> "RxRate", capability |-> "Capability", connected_since |-> "Time"]

\* a MAC line only matches when its value starts with an admitted character
MacLines(block) ==
    SelectSeq(block, LAMBDA ln : ln.label = "MAC" /\ Len(HexPrefix(ln.val)) > 0)

\* the dict built from one block: a key only for a pattern that matched
ParseClient(block) ==
    LET keys == {k \in DOMAIN ClientFields : Matches(block, ClientFields[k])}
                  \cup (IF Len(MacLines(block)) > 0 THEN {"mac"} ELSE {})
                  \cup (IF Matches(block, "Display SSID") \/ Matches(block, "SSID")
                        THEN {"ssid"} ELSE {})
    IN [k \in keys |->
          IF k = "mac" THEN Upper(HexPrefix(MacLines(block)[1].val))
          ELSE IF k = "ssid"
          THEN (IF Matches(block, "Display SSID") THEN Search(block, "Display SSID", "")
                ELSE Search(block, "SSID", ""))
          ELSE Search(block, ClientFields[k], "")]

\* a client parser that appends every block's record
parse_clients_unfiltered(output) ==
    [k \in 1..Len(client_blocks(output)) |-> ParseClient(client_blocks(output)[k])]

\* if client.get("mac"): clients.append(client)
_parse_clients(output) ==
    LET all == [k \in 1..Len(client_blocks(output)) |-> ParseClient(client_blocks(output)[k])]
    IN SelectSeq(all, LAMBDA c : "mac" \in DOMAIN c)

\* a row of the interface table: label "interface",
\* val [name, status, ip, mask]
_parse_interfaces(output) ==
    LET rows == Values(output, "interface")
        lan == SelectSeq(rows, LAMBDA r : r.name = "lan" /\ r.status = "Up"
                                          /\ r.ip # "n/a" /\ r.mask # "n/a")
        listed == SelectSeq(rows, LAMBDA r : r.status \in {"Up", "Down", "n/a"})
    IN [ip_address |-> IF Len(lan) > 0 THEN lan[1].ip ELSE "Unknown",
        netmask |-> IF Len(lan) > 0 THEN lan[1].mask ELSE "Unknown",
        interfaces |-> [i \in 1..Len(listed) |->
                          [name |-> listed[i].name, status |-> listed[i].status,
                           ip |-> IF listed[i].ip # "n/a" THEN listed[i].ip ELSE "None"]]]

\* first position after `from` of a line with label l (and value v when given), 0 if none
NextLine(output, from, l) ==
    LET at == {i \in (from + 1)..Len(output) : output[i].label = l}
    IN IF at = {} THEN 0 ELSE Min(at)

SlotLine(output, slot) ==
    LET at == {i \in 1..Len(output) : output[i].label = "slot" /\ output[i].val = slot}
    IN IF at = {} THEN 0 ELSE Min(at)

\* 'slot: slotN.*?Activate: (\w+).*?Band: ([\dG.]+)' with re.DOTALL: the first
\* Activate after the slot line and the first Band after that Activate
SlotMatch(output, slot) ==
    LET s == SlotLine(output, slot)
        a == IF s = 0 THEN 0 ELSE NextLine(output, s, "Activate")
        b == IF a = 0 THEN 0 ELSE NextLine(output, a, "Band")
    IN [found |-> b # 0, activate |-> a, band |-> b]

\* the SSID_profile values of the slot's block: slot1 ends at the slot2 line
\* (or the end of the text), slot2 at the end of the text
SlotSsids(output, slot) ==
    LET s == SlotLine(output, slot)
        other == {i \in (s + 1)..Len(output) : output[i].label = "slot" /\ output[i].val = "slot2"}
        e == IF slot = "slot1" /\ other # {} THEN Min(other) - 1 ELSE Len(output)
    IN IF s = 0 THEN <<>> ELSE Values(SubSeq(output, s + 1, e), "SSID_profile")

_parse_wlan(output) ==
    LET m1 == SlotMatch(output, "slot1")
        m2 == SlotMatch(output, "slot2")
    IN [slot1_active |-> m1.found /\ output[m1.activate].val = "yes",
        slot1_band |-> IF m1.found THEN output[m1.band].val ELSE "Unknown",
        slot1_ssids |-> SlotSsids(output, "slot1"),
        slot2_active |-> m2.found /\ output[m2.activate].val = "yes",
        slot2_band |-> IF m2.found THEN output[m2.band].val ELSE "Unknown",
        slot2_ssids |-> SlotSsids(output, "slot2")]

\* the row of port 1: label "port", val [status, tx_rate, rx_rate, uptime,
\* tx_bytes, rx_bytes]; status is the text split at "/" ("1000M/Full" is
\* <<"1000M", "Full">>, "Down" is <<"Down">>)
_parse_port_status(output) ==
    IF Matches(output, "port")
    THEN LET g == FindAll(output, "port")[1].val
         IN [status |-> g.status,
             speed |-> IF Len(g.status) > 1 THEN g.status[1] ELSE "Unknown",
             tx_bytes |-> g.tx_bytes, rx_bytes |-> g.rx_bytes,
             tx_rate |-> g.tx_rate, rx_rate |-> g.rx_rate, uptime |-> g.uptime]
    ELSE [status |-> <<"Unknown">>, speed |-> "Unknown", tx_bytes |-> 0, rx_bytes |-> 0,
          tx_rate |-> 0, rx_rate |-> 0, uptime |-> "Unknown"]

----------------------------------------------------------------------------
(* The device: what each command prints when it runs *)

VersionOutput ==
    << Line("model", "NWA50AX"), Line("firmware version", "V7.10(ABYW.3)"),
       Line("build date", "2024-05-20") >>

UptimeOutput == << Line("days time", <<1, 5, 34, 40>>) >>

CpuOutput ==
    << Line("CPU core utilization", 10), Line("CPU core utilization for 1 min", 12),
       Line("CPU core utilization for 5 min", 14),
       Line("CPU core utilization", 20), Line("CPU core utilization for 1 min", 22),
       Line("CPU core utilization for 5 min", 25),
       Line("CPU core utilization", 30), Line("CPU core utilization for 1 min", 35),
       Line("CPU core utilization for 5 min", 36) >>

MemOutput == << Line("memory usage", 53) >>

ClientsOutput ==
    << Line("index", 1), Line("MAC", <<"a", "4", ":", "B", "c">>),
       Line("IPv4", "192.168.1.50"), Line("Display SSID", "Home"),
       Line("RSSI dBm", -60), Line("RSSI", 70), Line("Slot", 1),
       Line("index", 2), Line("IPv4", "192.168.1.51"), Line("SSID", "Guest") >>

InterfaceOutput ==
    << Line("interface", [name |-> "lan", status |-> "Up",
                          ip |-> "192.168.1.2", mask |-> "255.255.255.0"]),
       Line("interface", [name |-> "wlan-1-1", status |-> "Down",
                          ip |-> "n/a", mask |-> "n/a"]) >>

WlanOutput ==
    << Line("slot", "slot1"), Line("Activate", "yes"), Line("Band", "2.4G"),
       Line("SSID_profile", "Home"),
       Line("slot", "slot2"), Line("Activate", "no"), Line("Band", "5G"),
       Line("SSID_profile", "Guest") >>

PortOutput ==
    << Line("port", [status |-> <<"1000M", "Full">>, tx_rate |-> 5, rx_rate |-> 7,
                     uptime |-> "01:02:03", tx_bytes |-> 1000, rx_bytes |-> 2000]) >>

\* a text none of the patterns matches (an error banner, another firmware)
UnmatchedOutput == << Line("% command", "not found") >>

\* async_get_data: the eight commands in program order
ReadCommands ==
    << "show version", "show system uptime", "show cpu all", "show mem status",
       "show wireless-hal station info", "show interface all", "show wlan all",
       "show port status" >>

\* the non-empty texts a command can print
Texts(command) ==
    CASE command = "show version" -> {VersionOutput, UnmatchedOutput}
      [] command = "show system uptime" -> {UptimeOutput}
      [] command = "show cpu all" -> {CpuOutput}
      [] command = "show mem status" -> {MemOutput}
      [] command = "show wireless-hal station info" -> {ClientsOutput}
      [] command = "show interface all" -> {InterfaceOutput}
      [] command = "show wlan all" -> {WlanOutput}
      [] command = "show port status" -> {PortOutput}
      [] OTHER -> {UnmatchedOutput}

\* what running a command on the device can come to: it ran (exit 0 or not)
\* and printed a text, possibly empty, or the transport failed
Outcomes(command) ==
    {[kind |-> k, stdout |-> t] : k \in {"ok", "exit_nonzero"}, t \in Texts(command) \cup {<<>>}}
        \cup {[kind |-> k, stdout |-> <<>>] : k \in {"timeout", "transport_error"}}

----------------------------------------------------------------------------
(* Aggregator *)

\* a record that is only built when there is none yet
StaleData ==
    IF DOMAIN data = {}
    THEN [device_info |-> EmptyDict, status |-> EmptyDict, clients |-> <<>>,
          network |-> EmptyDict, radio |-> EmptyDict]
    ELSE data

\* the `data` literal async_get_data starts from
FreshData ==
    [device_info |-> EmptyDict, status |-> EmptyDict, clients |-> <<>>,
     network |-> EmptyDict, radio |-> EmptyDict]

\* an aggregator that files the port status beside the sections
StoreFlat(k, d, output) ==
    CASE k = 1 -> [d EXCEPT !.device_info = _parse_version(output)]
      [] k = 2 -> [d EXCEPT !.status = Put(d.status, "uptime", _parse_uptime(output))]
      [] k = 3 -> [d EXCEPT !.status = Put(d.status, "cpu", _parse_cpu(output))]
      [] k = 4 -> [d EXCEPT !.status = Put(d.status, "memory", _parse_memory(output))]
      [] k = 5 -> [d EXCEPT !.clients = _parse_clients(output)]
      [] k = 6 -> [d EXCEPT !.network = _parse_interfaces(output)]
      [] k = 7 -> [d EXCEPT !.radio = _parse_wlan(output)]
      [] k = 8 -> Put(d, "port", _parse_port_status(output))

\* an aggregator that replaces the network section by the port record
StorePortAlone(k, d, output) ==
    CASE k = 1 -> [d EXCEPT !.device_info = _parse_version(output)]
      [] k = 2 -> [d EXCEPT !.status = Put(d.status, "uptime", _parse_uptime(output))]
      [] k = 3 -> [d EXCEPT !.status = Put(d.status, "cpu", _parse_cpu(output))]
      [] k = 4 -> [d EXCEPT !.status = Put(d.status, "memory", _parse_memory(output))]
      [] k = 5 -> [d EXCEPT !.clients = _parse_clients(output)]
      [] k = 6 -> [d EXCEPT !.network = _parse_interfaces(output)]
      [] k = 7 -> [d EXCEPT !.radio = _parse_wlan(output)]
      [] k = 8 -> [d EXCEPT !.network = [port |-> _parse_port_status(output)]]

\* the assignment guarded by `if <k-th output>:`
Store(k, d, output) ==
    CASE k = 1 -> [d EXCEPT !.device_info = _parse_version(output)]
      [] k = 2 -> [d EXCEPT !.status = Put(d.status, "uptime", _parse_uptime(output))]
      [] k = 3 -> [d EXCEPT !.status = Put(d.status, "cpu", _parse_cpu(output))]
      [] k = 4 -> [d EXCEPT !.status = Put(d.status, "memory", _parse_memory(output))]
      [] k = 5 -> [d EXCEPT !.clients = _parse_clients(output)]
      [] k = 6 -> [d EXCEPT !.network = _parse_interfaces(output)]
      [] k = 7 -> [d EXCEPT !.radio = _parse_wlan(output)]
      [] k = 8 -> [d EXCEPT !.network = Put(d.network, "port", _parse_port_status(output))]

\* `if output is not None:` in place of `if output:`
StoreUnlessNone(k, d, r) ==
    IF r.some
    THEN CASE k = 1 -> [d EXCEPT !.device_info = _parse_version(r.text)]
           [] k = 2 -> [d EXCEPT !.status = Put(d.status, "uptime", _parse_uptime(r.text))]
           [] k = 3 -> [d EXCEPT !.status = Put(d.status, "cpu", _parse_cpu(r.text))]
           [] k = 4 -> [d EXCEPT !.status = Put(d.status, "memory", _parse_memory(r.text))]
           [] k = 5 -> [d EXCEPT !.clients = _parse_clients(r.text)]
           [] k = 6 -> [d EXCEPT !.network = _parse_interfaces(r.text)]
           [] k = 7 -> [d EXCEPT !.radio = _parse_wlan(r.text)]
           [] k = 8 -> [d EXCEPT !.network = Put(d.network, "port", _parse_port_status(r.text))]
    ELSE d

\* `if output:` then the assignment, else nothing
StoreResponse(k, d, r) == IF Truthy(r) THEN Store(k, d, r.text) ELSE d

\* a reader that returns at the first absent response
StopOnAbsence(k, r) ==
    IF k = 8 \/ r = None THEN "get_data_done" ELSE "get_data"

\* where async_get_data goes after the k-th command returned r: straight on
\* to the next statement, whatever r is; `return data` follows the eighth
AfterCommand(k, r) == IF k = Len(ReadCommands) THEN "get_data_done" ELSE "get_data"

----------------------------------------------------------------------------
(* Mutating actions *)

\* a command list with the two schedule commands the other way round
ToggleCommandsSwapped(en) ==
    << "configure terminal", "wlan-ssid-profile Guest",
       IF en THEN "ssid-schedule" ELSE "no ssid-schedule", "exit", "write" >>

\* the `commands` list of async_toggle_guest_ssid
ToggleCommands(en) ==
    << "configure terminal", "wlan-ssid-profile Guest",
       IF en THEN "no ssid-schedule" ELSE "ssid-schedule", "exit", "write" >>

\* `if result:` in place of `if result is not None:`
RebootIfTruthy(r) == IF r.raised THEN FALSE ELSE Truthy(r.ret)

\* async_reboot: True when the runner returned something other than None
RebootResult(r) == IF r.raised THEN FALSE ELSE r.ret # None

----------------------------------------------------------------------------
(* State machine: one ZyxelSSHAPI object and the calls made on it *)

Modules == {"ha_zyxel", "ha_zyxel_NWA50AX_SSH"}

\* commands given to async_execute_command when it is called directly
DirectCommands == {"show version", "write"}

NoOutcome == [kind |-> "none", stdout |-> <<>>]

\* the record kept of a call: what was called, by whom, with what, in which
\* state, what the transport did and what the call did (see Base)
Call(op, caller, command, out, r, flag) ==
    [op |-> op, caller |-> caller, command |-> command,
     connBefore |-> _conn, kind |-> out.kind, stdout |-> out.stdout,
     ret |-> r.ret, flag |-> flag, raised |-> r.raised, conn |-> r.conn,
     contacted |-> r.contacted, opened |-> r.opened, path |-> r.path]

\* a connection is only established while a connection id is free
CanOpen(r) == r.opened => ConnIds \ conns # {}

\* no coordinator: none is created before the connection is up
NoCoordinator == [exists |-> FALSE, update |-> "none", fetches |-> 0]

\* no config entry is set up around the object
NoEntry ==
    /\ entry = "not_loaded"
    /\ setup = [cause |-> "none", raised |-> "none"]
    /\ coordinator = NoCoordinator
    /\ platforms = FALSE
    /\ _attr_is_on = FALSE
    /\ commanded = "none"
    /\ connectedOk = FALSE

\* no entity action runs
Resting == [pc |-> "idle", idx |-> 0, enable |-> FALSE]

NoAction ==
    /\ act = Resting
    /\ inflight = {}
    /\ wire = <<>>

\* no parser has been applied
NoResult == [parser |-> "none", result |-> 0]

\* the wizard has not been opened
NoFlow == [step |-> "closed", errors |-> "none", raised |-> "none", created |-> FALSE,
           title |-> "none", connected |-> FALSE, fetched |-> FALSE]

NoAside ==
    /\ text = <<>>
    /\ parsed = NoResult
    /\ flow = NoFlow

Init ==
    /\ \E m \in Modules, a \in BOOLEAN, p \in BOOLEAN :
          LET flags == ImportFlags(m, a, p)
          IN /\ ~InitRaises(flags)
             /\ module = m
             /\ HAS_ASYNCSSH = flags.asyncssh
             /\ HAS_PARAMIKO = flags.paramiko
    /\ _conn = NoConn
    /\ conns = {}
    /\ pc = "idle"
    /\ idx = 0
    /\ enable = FALSE
    /\ sent = <<>>
    /\ resp = <<>>
    /\ data = EmptyDict
    /\ faults = 0
    /\ filledBefore = FALSE
    /\ last = Call("__init__", "host", "", NoOutcome, Base, FALSE)
    /\ NoEntry
    /\ NoAction
    /\ NoAside

\* await api.async_connect(), while no other call on the object is running
Connect ==
    /\ pc = "idle"
    /\ \E outcome \in ConnectOutcomes :
          LET r == async_connect(outcome)
          IN /\ CanOpen(r)
             /\ _conn' = r.conn
             /\ conns' = r.conns
             /\ last' = Call("async_connect", "host", "", [kind |-> outcome, stdout |-> <<>>],
                             r, r.flag)
             /\ UNCHANGED <<aside, host, race, module, HAS_ASYNCSSH, HAS_PARAMIKO, pc, idx, enable, sent, resp,
                            data, faults, filledBefore>>

\* await api.async_disconnect(), at any moment (also between two commands of
\* a running async_get_data or async_toggle_guest_ssid)
Disconnect ==
    \E close \in CloseOutcomes :
        LET r == async_disconnect(close)
        IN /\ _conn' = r.conn
           /\ conns' = r.conns
           /\ last' = Call("async_disconnect", "host", "", [kind |-> close, stdout |-> <<>>],
                           r, FALSE)
           /\ UNCHANGED <<aside, host, race, module, HAS_ASYNCSSH, HAS_PARAMIKO, pc, idx, enable, sent, resp, data, faults, filledBefore>>

\* await api.async_execute_command(command), called directly
Execute ==
    /\ pc = "idle"
    /\ \E command \in DirectCommands, tmp \in ConnectOutcomes :
         \E out \in Outcomes(command) :
            LET r == async_execute_command(out, tmp)
            IN /\ CanOpen(r)
               /\ _conn' = r.conn
               /\ conns' = r.conns
               /\ last' = Call("async_execute_command", "host", command, out, r, FALSE)
               /\ UNCHANGED <<aside, host, race, module, HAS_ASYNCSSH, HAS_PARAMIKO, pc, idx, enable, sent, resp, data, faults, filledBefore>>

\* async_get_data is called: the `data` literal is built
GetDataStart ==
    /\ pc = "idle"
    /\ pc' = "get_data"
    /\ idx' = 0
    /\ sent' = <<>>
    /\ resp' = <<>>
    /\ data' = FreshData
    /\ faults' = 0
    /\ UNCHANGED <<aside, host, race, module, HAS_ASYNCSSH, HAS_PARAMIKO, _conn, conns, enable, filledBefore, last>>

\* the outcome every command has on a healthy device and link
Normal(command) ==
    [kind |-> "ok", stdout |-> CHOOSE t \in Texts(command) : t # UnmatchedOutput]

\* the next `x_output = await self.async_execute_command(...)` and its `if`;
\* an exception would end the try block (`except Exception` then `return data`).
\* Outcomes other than the normal one are counted against `limit`, unless the
\* limit is the number of commands (no limit).
GetDataStepWithin(limit) ==
    /\ pc = "get_data"
    /\ idx < Len(ReadCommands)
    /\ \E tmp \in ConnectOutcomes :
         \E out \in Outcomes(ReadCommands[idx + 1]) :
            LET command == ReadCommands[idx + 1]
                r == async_execute_command(out, tmp)
                fault == IF limit = Len(ReadCommands) \/ (out = Normal(command) /\ tmp = "ok")
                         THEN 0 ELSE 1
            IN /\ faults + fault <= limit
               /\ CanOpen(r)
               /\ faults' = faults + fault
               /\ _conn' = r.conn
               /\ conns' = r.conns
               /\ sent' = Append(sent, command)
               /\ last' = Call("async_execute_command", "async_get_data", command, out, r, FALSE)
               /\ IF r.raised
                  THEN /\ pc' = "get_data_done"
                       /\ UNCHANGED <<idx, resp, data>>
                  ELSE /\ idx' = idx + 1
                       /\ resp' = Append(resp, r.ret)
                       /\ data' = StoreResponse(idx + 1, data, r.ret)
                       /\ pc' = AfterCommand(idx + 1, r.ret)
               /\ UNCHANGED <<aside, host, race, module, HAS_ASYNCSSH, HAS_PARAMIKO, enable, filledBefore>>

GetDataStep == GetDataStepWithin(MaxFaults)

\* every section of a snapshot holds something
AllFilled(d) ==
    /\ DOMAIN d.device_info # {}
    /\ DOMAIN d.status # {}
    /\ Len(d.clients) > 0
    /\ DOMAIN d.network # {}
    /\ DOMAIN d.radio # {}

\* return data; the caller either keeps the record it got (as the update
\* coordinator does) or drops it
GetDataReturnTo(keeps) ==
    /\ pc = "get_data_done"
    /\ pc' = "idle"
    /\ idx' = 0
    /\ sent' = <<>>
    /\ resp' = <<>>
    /\ faults' = 0
    /\ data' = IF keeps THEN data ELSE EmptyDict
    /\ filledBefore' = IF keeps THEN filledBefore \/ AllFilled(data) ELSE filledBefore
    /\ last' = Call("async_get_data", "host", "", NoOutcome, Base, FALSE)
    /\ UNCHANGED <<aside, host, race, module, HAS_ASYNCSSH, HAS_PARAMIKO, _conn, conns, enable>>

GetDataReturn == GetDataReturnTo(FALSE)

\* await api.async_reboot()
Reboot ==
    /\ pc = "idle"
    /\ \E tmp \in ConnectOutcomes :
         \E out \in Outcomes("reboot") :
            LET r == async_execute_command(out, tmp)
            IN /\ CanOpen(r)
               /\ _conn' = r.conn
               /\ conns' = r.conns
               /\ last' = Call("async_execute_command", "async_reboot", "reboot", out,
                               r, RebootResult(r))
               /\ UNCHANGED <<aside, host, race, module, HAS_ASYNCSSH, HAS_PARAMIKO, pc, idx, enable, sent, resp, data, faults, filledBefore>>

\* async_toggle_guest_ssid(en) is called: the command list is chosen
ToggleStart ==
    /\ pc = "idle"
    /\ \E en \in BOOLEAN : enable' = en
    /\ pc' = "toggle"
    /\ idx' = 0
    /\ sent' = <<>>
    /\ UNCHANGED <<aside, host, race, module, HAS_ASYNCSSH, HAS_PARAMIKO, _conn, conns, resp, data, faults, filledBefore, last>>

\* await self.async_execute_command(cmd); the returned value is dropped; an
\* exception would end the call with False
ToggleSend ==
    /\ pc = "toggle"
    /\ \E tmp \in ConnectOutcomes :
         \E out \in Outcomes(ToggleCommands(enable)[idx + 1]) :
            LET command == ToggleCommands(enable)[idx + 1]
                r == async_execute_command(out, tmp)
            IN /\ CanOpen(r)
               /\ _conn' = r.conn
               /\ conns' = r.conns
               /\ sent' = Append(sent, command)
               /\ last' = Call("async_execute_command", "async_toggle_guest_ssid", command,
                               out, r, FALSE)
               /\ pc' = IF r.raised THEN "toggle_done" ELSE "toggle_sleep"
               /\ UNCHANGED <<aside, host, race, module, HAS_ASYNCSSH, HAS_PARAMIKO, idx, enable, resp, data, faults, filledBefore>>

\* await asyncio.sleep(0.5) is over: on to the next command, if any
ToggleWake ==
    /\ pc = "toggle_sleep"
    /\ idx' = idx + 1
    /\ pc' = IF idx + 1 = Len(ToggleCommands(enable)) THEN "toggle_done" ELSE "toggle"
    /\ UNCHANGED <<aside, host, race, module, HAS_ASYNCSSH, HAS_PARAMIKO, _conn, conns, enable, sent, resp,
                   data, faults, filledBefore, last>>

\* return True after the last pause; return False from the except clause
ToggleReturn ==
    /\ pc = "toggle_done"
    /\ pc' = "idle"
    /\ idx' = 0
    /\ sent' = <<>>
    /\ enable' = FALSE
    /\ last' = Call("async_toggle_guest_ssid", "host", "", NoOutcome, Base,
                    idx = Len(ToggleCommands(enable)))
    /\ UNCHANGED <<aside, host, race, module, HAS_ASYNCSSH, HAS_PARAMIKO, _conn, conns, resp, data, faults, filledBefore>>

Next ==
    \/ Connect
    \/ Disconnect
    \/ Execute
    \/ GetDataStart
    \/ GetDataStep
    \/ GetDataReturn
    \/ Reboot
    \/ ToggleStart
    \/ ToggleSend
    \/ ToggleWake
    \/ ToggleReturn

Spec == Init /\ [][Next]_vars

----------------------------------------------------------------------------
(* The polling caller: connects once, polls again and again, disconnects;   *)
(* every outcome of every command is allowed in every poll.                 *)

PollConnect == _conn = NoConn /\ conns = {} /\ Connect

PollDisconnect == pc = "idle" /\ Disconnect

PollStep == GetDataStepWithin(Len(ReadCommands))

NextPoll ==
    \/ PollConnect
    \/ PollDisconnect
    \/ GetDataStart
    \/ PollStep
    \/ GetDataReturn

SpecPoll == Init /\ [][NextPoll]_vars

----------------------------------------------------------------------------
(* The same caller keeping each snapshot it is given, as the update          *)
(* coordinator does; outcomes limited as in Spec.                            *)

KeepReturn == GetDataReturnTo(TRUE)

NextKeep ==
    \/ PollConnect
    \/ PollDisconnect
    \/ GetDataStart
    \/ GetDataStep
    \/ KeepReturn

SpecKeep == Init /\ [][NextKeep]_vars

----------------------------------------------------------------------------
(* The plugin (src/ha_zyxel): async_setup_entry, the coordinator's refresh,  *)
(* the entities' actions and async_unload_entry, around one API object at a *)
(* time; the host runs one of them at a time here.                          *)

InitPlugin ==
    /\ \E m \in Modules, a \in BOOLEAN, p \in BOOLEAN :
          LET flags == ImportFlags(m, a, p)
          IN /\ module = m
             /\ HAS_ASYNCSSH = flags.asyncssh
             /\ HAS_PARAMIKO = flags.paramiko
    /\ _conn = NoConn
    /\ conns = {}
    /\ pc = "idle"
    /\ idx = 0
    /\ enable = FALSE
    /\ sent = <<>>
    /\ resp = <<>>
    /\ data = EmptyDict
    /\ faults = 0
    /\ filledBefore = FALSE
    /\ last = Call("none", "host", "", NoOutcome, Base, FALSE)
    /\ NoEntry
    /\ NoAction
    /\ NoAside

\* async_setup_entry up to `api = ZyxelSSHAPI(...)`: a new object, made
\* outside the try block, so the constructor's ImportError leaves the function
SetupConstruct ==
    /\ entry \in {"not_loaded", "setup_retry"}
    /\ pc = "idle"
    /\ LET fails == InitRaises([asyncssh |-> HAS_ASYNCSSH, paramiko |-> HAS_PARAMIKO])
       IN /\ entry' = IF fails THEN "setup_error" ELSE "constructed"
          /\ setup' = IF fails THEN [cause |-> "no_library", raised |-> "ImportError"]
                      ELSE [cause |-> "none", raised |-> "none"]
          /\ last' = [Call("__init__", "async_setup_entry", "", NoOutcome, Base, FALSE)
                         EXCEPT !.raised = fails, !.conn = NoConn]
    /\ _conn' = NoConn
    /\ conns' = {}
    /\ connectedOk' = FALSE
    /\ coordinator' = NoCoordinator
    /\ UNCHANGED <<aside, platforms, _attr_is_on, commanded, race, module, HAS_ASYNCSSH,
                   HAS_PARAMIKO, pc, idx, enable, sent, resp, data, faults, filledBefore>>

\* a setup that goes on whatever async_connect returned
IgnoringConnect(r) == "connected"

\* `connected = await api.async_connect()`, `if not connected: raise`, and
\* the except clause: on to the coordinator, or ConfigEntryNotReady
AfterConnect(r) == IF r.flag /\ ~r.raised THEN "connected" ELSE "setup_retry"

\* async_setup_entry from the connection to the creation of the coordinator
SetupConnect ==
    /\ entry = "constructed"
    /\ \E outcome \in ConnectOutcomes :
          LET r == async_connect(outcome)
              next == AfterConnect(r)
          IN /\ CanOpen(r)
             /\ _conn' = r.conn
             /\ conns' = r.conns
             /\ last' = Call("async_connect", "async_setup_entry", "",
                             [kind |-> outcome, stdout |-> <<>>], r, r.flag)
             /\ connectedOk' = r.flag
             /\ entry' = next
             /\ setup' = [cause |-> IF r.contacted /\ outcome # "ok" THEN outcome ELSE "none",
                          raised |-> IF next = "connected" THEN "none"
                                     ELSE "ConfigEntryNotReady"]
             /\ coordinator' = IF next = "connected"
                               THEN [exists |-> TRUE, update |-> "none", fetches |-> 0]
                               ELSE NoCoordinator
    /\ UNCHANGED <<aside, platforms, _attr_is_on, commanded, race, module, HAS_ASYNCSSH,
                   HAS_PARAMIKO, pc, idx, enable, sent, resp, data, faults, filledBefore>>

\* a refresh of the coordinator (the first one of the setup, then the
\* scheduled ones) calls async_update_data, which calls async_get_data once
RefreshStart ==
    /\ entry \in {"connected", "loaded"}
    /\ entry = "connected" => coordinator.update = "none"
    /\ coordinator.update # "running"
    /\ pc = "idle"
    /\ coordinator' = [coordinator EXCEPT !.update = "running", !.fetches = 1]
    /\ pc' = "get_data"
    /\ idx' = 0
    /\ sent' = <<>>
    /\ resp' = <<>>
    /\ data' = FreshData
    /\ faults' = 0
    /\ UNCHANGED <<aside, entry, setup, platforms, _attr_is_on, commanded, connectedOk, race,
                   module, HAS_ASYNCSSH, HAS_PARAMIKO, _conn, conns, enable,
                   filledBefore, last>>

RefreshStep == GetDataStep

\* async_get_data returned inside the 30 s: the update succeeded.  After the
\* first refresh async_setup_entry stores coordinator and api and forwards
\* the platforms, which create the entities (the switch with _attr_is_on False)
RefreshReturn ==
    /\ pc = "get_data_done"
    /\ coordinator.update = "running"
    /\ coordinator' = [coordinator EXCEPT !.update = "ok"]
    /\ pc' = "idle"
    /\ idx' = 0
    /\ sent' = <<>>
    /\ resp' = <<>>
    /\ data' = EmptyDict
    /\ faults' = 0
    /\ last' = Call("async_get_data", "async_update_data", "", NoOutcome, Base, FALSE)
    /\ IF entry = "connected"
       THEN /\ entry' = "loaded"
            /\ platforms' = TRUE
            /\ _attr_is_on' = FALSE
       ELSE UNCHANGED <<entry, platforms, _attr_is_on>>
    /\ UNCHANGED <<aside, setup, commanded, connectedOk, race, module, HAS_ASYNCSSH, HAS_PARAMIKO,
                   _conn, conns, enable, filledBefore>>

\* an update method that fetches again when the fetch timed out
RetryAfterTimeout ==
    [pc |-> "get_data", update |-> "running", fetches |-> coordinator.fetches + 1]

\* asyncio.wait_for(..., timeout=30.0) expired: the fetch is cancelled and
\* `raise UpdateFailed(...)`; nothing is called again
AfterTimeout == [pc |-> "idle", update |-> "UpdateFailed", fetches |-> coordinator.fetches]

\* the 30 s are over while async_get_data waits for a command.  In the first
\* refresh the failed update ends async_setup_entry with ConfigEntryNotReady
RefreshTimeout ==
    /\ pc = "get_data"
    /\ coordinator.update = "running"
    /\ LET t == AfterTimeout
           failsSetup == entry = "connected" /\ t.update = "UpdateFailed"
       IN /\ pc' = t.pc
          /\ coordinator' = [coordinator EXCEPT !.update = t.update, !.fetches = t.fetches]
          /\ data' = IF t.pc = "get_data" THEN FreshData ELSE EmptyDict
          /\ entry' = IF failsSetup THEN "setup_retry" ELSE entry
          /\ setup' = IF failsSetup
                      THEN [cause |-> "refresh_failed", raised |-> "ConfigEntryNotReady"]
                      ELSE setup
    /\ idx' = 0
    /\ sent' = <<>>
    /\ resp' = <<>>
    /\ faults' = 0
    /\ UNCHANGED <<aside, platforms, _attr_is_on, commanded, connectedOk, race, module,
                   HAS_ASYNCSSH, HAS_PARAMIKO, _conn, conns, enable, filledBefore, last>>

\* ZyxelGuestSSIDSwitch.async_turn_on / async_turn_off call the toggle
SwitchTurn == entry = "loaded" /\ ToggleStart

\* a switch that shows what the last snapshot says of the first radio
is_on_from_snapshot ==
    IF "radio" \in DOMAIN data /\ "slot1_active" \in DOMAIN data.radio
    THEN data.radio.slot1_active
    ELSE _attr_is_on

\* ZyxelGuestSSIDSwitch.is_on: the state the switch shows
is_on == _attr_is_on

\* a switch that changes its state only when a command was answered
AfterToggleAnswered(success, en, cur) ==
    IF success /\ \E k \in 1..Len(resp) : resp[k] # None THEN en ELSE cur

\* `if success: self._attr_is_on = <True|False>`, else (and in the except
\* clause) nothing
AfterToggle(success, en, cur) == IF success THEN en ELSE cur

\* the toggle returned to async_turn_on / async_turn_off
SwitchReturn ==
    /\ pc = "toggle_done"
    /\ LET success == idx = Len(ToggleCommands(enable))
       IN /\ _attr_is_on' = AfterToggle(success, enable, _attr_is_on)
          /\ commanded' = IF success THEN (IF enable THEN "on" ELSE "off") ELSE commanded
          /\ last' = Call("async_toggle_guest_ssid",
                          IF enable THEN "async_turn_on" ELSE "async_turn_off",
                          "", NoOutcome, Base, success)
    /\ pc' = "idle"
    /\ idx' = 0
    /\ sent' = <<>>
    /\ enable' = FALSE
    /\ UNCHANGED <<aside, entry, setup, coordinator, platforms, connectedOk, race, module,
                   HAS_ASYNCSSH, HAS_PARAMIKO, _conn, conns, resp, data, faults,
                   filledBefore>>

\* ZyxelRebootButton.async_press
Press == entry = "loaded" /\ Reboot

\* an unload that leaves the session alone
UnloadWithoutDisconnect(unload_ok, close) == Base

\* `if unload_ok: ... await api.async_disconnect()`
UnloadDisconnect(unload_ok, close) == IF unload_ok THEN async_disconnect(close) ELSE Base

\* async_unload_entry; unload_ok is what async_unload_platforms returned
Unload ==
    /\ entry = "loaded"
    /\ pc = "idle"
    /\ coordinator.update # "running"
    /\ \E unload_ok \in BOOLEAN, close \in CloseOutcomes :
          LET r == UnloadDisconnect(unload_ok, close)
              done == unload_ok /\ ~r.raised
          IN /\ _conn' = r.conn
             /\ conns' = r.conns
             /\ last' = Call(IF unload_ok THEN "async_disconnect" ELSE "async_unload_platforms",
                             "async_unload_entry", "",
                             [kind |-> IF unload_ok THEN close ELSE "none", stdout |-> <<>>],
                             r, unload_ok)
             /\ entry' = IF done THEN "not_loaded" ELSE "failed_unload"
             /\ platforms' = ~unload_ok
             /\ coordinator' = IF done THEN NoCoordinator ELSE coordinator
    /\ UNCHANGED <<aside, setup, _attr_is_on, commanded, connectedOk, race, module, HAS_ASYNCSSH,
                   HAS_PARAMIKO, pc, idx, enable, sent, resp, data, faults, filledBefore>>

NextPlugin ==
    \/ SetupConstruct
    \/ SetupConnect
    \/ RefreshStart
    \/ RefreshStep
    \/ RefreshReturn
    \/ RefreshTimeout
    \/ SwitchTurn
    \/ ToggleSend
    \/ ToggleWake
    \/ SwitchReturn
    \/ Press
    \/ Unload

SpecPlugin == InitPlugin /\ [][NextPlugin]_vars

----------------------------------------------------------------------------
(* The guest switch of a loaded entry, with the value each of the toggle's  *)
(* commands returned kept in `resp`; the refreshes meet no failure here.    *)

\* async_turn_on / async_turn_off calls async_toggle_guest_ssid
SwitchStart ==
    /\ entry = "loaded"
    /\ pc = "idle"
    /\ \E en \in BOOLEAN : enable' = en
    /\ pc' = "toggle"
    /\ idx' = 0
    /\ sent' = <<>>
    /\ resp' = <<>>
    /\ UNCHANGED <<aside, host, race, module, HAS_ASYNCSSH, HAS_PARAMIKO, _conn, conns,
                   data, faults, filledBefore, last>>

\* await self.async_execute_command(cmd): the returned value is dropped by
\* the code and kept here
SwitchSend ==
    /\ pc = "toggle"
    /\ \E tmp \in ConnectOutcomes :
         \E out \in Outcomes(ToggleCommands(enable)[idx + 1]) :
            LET command == ToggleCommands(enable)[idx + 1]
                r == async_execute_command(out, tmp)
            IN /\ CanOpen(r)
               /\ _conn' = r.conn
               /\ conns' = r.conns
               /\ sent' = Append(sent, command)
               /\ resp' = Append(resp, r.ret)
               /\ last' = Call("async_execute_command", "async_toggle_guest_ssid", command,
                               out, r, FALSE)
               /\ pc' = IF r.raised THEN "toggle_done" ELSE "toggle_sleep"
               /\ UNCHANGED <<aside, host, race, module, HAS_ASYNCSSH, HAS_PARAMIKO, idx,
                              enable, data, faults, filledBefore>>

\* a refresh in which every command prints its usual text
QuietStep == GetDataStepWithin(0)

NextSwitch ==
    \/ SetupConstruct
    \/ SetupConnect
    \/ RefreshStart
    \/ QuietStep
    \/ RefreshReturn
    \/ SwitchStart
    \/ SwitchSend
    \/ ToggleWake
    \/ SwitchReturn

SpecSwitch == InitPlugin /\ [][NextSwitch]_vars

----------------------------------------------------------------------------
(* The setup wizard (src/ha_zyxel/config_flow.py): async_step_user shows    *)
(* the form, and on a submitted form runs validate_input, which constructs  *)
(* an API object, connects, reads one snapshot and disconnects.             *)

\* async_step_user(user_input=None): the empty form
FlowOpen ==
    /\ flow.step = "closed"
    /\ flow' = [flow EXCEPT !.step = "form"]
    /\ UNCHANGED <<object, host, race, text, parsed>>

\* `except CannotConnect` / `except Exception` of async_step_user
StepUserErrors(exception) ==
    IF exception = "CannotConnect" THEN "cannot_connect" ELSE "unknown"

\* validate_input left with `exception`: the form is shown again
ShowFormAfter(exception) ==
    [flow EXCEPT !.step = "form", !.raised = exception, !.errors = StepUserErrors(exception)]

\* the form is submitted; validate_input constructs the API object, outside
\* its try block
FlowSubmit ==
    /\ flow.step = "form"
    /\ pc = "idle"
    /\ LET fails == InitRaises([asyncssh |-> HAS_ASYNCSSH, paramiko |-> HAS_PARAMIKO])
       IN /\ flow' = IF fails THEN ShowFormAfter("ImportError")
                      ELSE [flow EXCEPT !.step = "constructed", !.raised = "none",
                                        !.errors = "none", !.connected = FALSE,
                                        !.fetched = FALSE]
          /\ last' = [Call("__init__", "validate_input", "", NoOutcome, Base, FALSE)
                         EXCEPT !.raised = fails, !.conn = NoConn]
    /\ _conn' = NoConn
    /\ conns' = {}
    /\ UNCHANGED <<module, HAS_ASYNCSSH, HAS_PARAMIKO, pc, idx, enable, sent, resp, data,
                   faults, filledBefore, host, race, text, parsed>>

\* a validation that goes on whatever async_connect returned
ValidationIgnoringConnect(r) == TRUE

\* `connected = await api.async_connect()` and `if not connected: raise
\* CannotConnect`: validation goes on only after True
ConnectedForValidation(r) == r.flag /\ ~r.raised

FlowConnect ==
    /\ flow.step = "constructed"
    /\ \E outcome \in ConnectOutcomes :
          LET r == async_connect(outcome)
          IN /\ CanOpen(r)
             /\ _conn' = r.conn
             /\ conns' = r.conns
             /\ last' = Call("async_connect", "validate_input", "",
                             [kind |-> outcome, stdout |-> <<>>], r, r.flag)
             /\ flow' = IF ConnectedForValidation(r)
                         THEN [flow EXCEPT !.step = "connected", !.connected = r.flag]
                         ELSE ShowFormAfter("CannotConnect")
    /\ UNCHANGED <<module, HAS_ASYNCSSH, HAS_PARAMIKO, pc, idx, enable, sent, resp, data,
                   faults, filledBefore, host, race, text, parsed>>

\* device_data = await api.async_get_data()
FlowFetchStart ==
    /\ flow.step = "connected"
    /\ pc = "idle"
    /\ flow' = [flow EXCEPT !.step = "fetching"]
    /\ pc' = "get_data"
    /\ idx' = 0
    /\ sent' = <<>>
    /\ resp' = <<>>
    /\ data' = FreshData
    /\ faults' = 0
    /\ UNCHANGED <<module, HAS_ASYNCSSH, HAS_PARAMIKO, _conn, conns, enable, filledBefore,
                   last, host, race, text, parsed>>

\* the commands of that read; at most one of them meets a failure here
FlowFetchStep == flow.step = "fetching" /\ GetDataStepWithin(1)

\* async_get_data returned its snapshot to validate_input
FlowFetchReturn ==
    /\ flow.step = "fetching"
    /\ pc = "get_data_done"
    /\ flow' = [flow EXCEPT !.step = "fetched", !.fetched = TRUE]
    /\ pc' = "idle"
    /\ idx' = 0
    /\ sent' = <<>>
    /\ resp' = <<>>
    /\ faults' = 0
    /\ last' = Call("async_get_data", "validate_input", "", NoOutcome, Base, FALSE)
    /\ UNCHANGED <<module, HAS_ASYNCSSH, HAS_PARAMIKO, _conn, conns, enable, data,
                   filledBefore, host, race, text, parsed>>

\* device_data.get('device_info', {}).get('model', 'NWA50AX')
TitleModel(device_data) ==
    IF "model" \in DOMAIN device_data.device_info
    THEN device_data.device_info.model ELSE "NWA50AX"

\* await api.async_disconnect(), still inside the try block, then the title
FlowDisconnect ==
    /\ flow.step = "fetched"
    /\ \E close \in CloseOutcomes :
          LET r == async_disconnect(close)
          IN /\ _conn' = r.conn
             /\ conns' = r.conns
             /\ last' = Call("async_disconnect", "validate_input", "",
                             [kind |-> close, stdout |-> <<>>], r, FALSE)
             /\ flow' = IF r.raised THEN ShowFormAfter("CannotConnect")
                         ELSE [flow EXCEPT !.step = "validated", !.title = TitleModel(data)]
    /\ data' = EmptyDict
    /\ UNCHANGED <<module, HAS_ASYNCSSH, HAS_PARAMIKO, pc, idx, enable, sent, resp,
                   faults, filledBefore, host, race, text, parsed>>

\* async_set_unique_id, _abort_if_unique_id_configured, async_create_entry
FlowCreate ==
    /\ flow.step = "validated"
    /\ \E configured \in BOOLEAN :
          flow' = IF configured THEN [flow EXCEPT !.step = "aborted"]
                  ELSE [flow EXCEPT !.step = "created", !.created = TRUE]
    /\ UNCHANGED <<object, host, race, text, parsed>>

NextFlow ==
    \/ FlowOpen
    \/ FlowSubmit
    \/ FlowConnect
    \/ FlowFetchStart
    \/ FlowFetchStep
    \/ FlowFetchReturn
    \/ FlowDisconnect
    \/ FlowCreate

SpecFlow == InitPlugin /\ [][NextFlow]_vars

----------------------------------------------------------------------------
(* Two coroutines on one API object: a poll and an entity action (guest      *)
(* toggle or reboot).  Each `await self.async_execute_command(...)` is split *)
(* into the sending of the command and the receipt of its response; the     *)
(* device answers every command.                                            *)

\* the commands remembered in `wire`
WireWindow == 3

Push(w, owner, command) ==
    LET full == Append(w, [owner |-> owner, command |-> command])
    IN IF Len(full) > WireWindow THEN Tail(full) ELSE full

\* a runner that waits until no other command is in flight
MayIssueLocked(owner) == inflight = {}

\* async_execute_command goes straight to `self._conn.run(...)` /
\* run_in_executor: nothing is acquired or tested before a command is sent
MayIssue(owner) == TRUE

\* what a configuration or reboot command prints when it runs: nothing
Silent == [kind |-> "ok", stdout |-> <<>>]

RaceConnect == act.pc = "idle" /\ inflight = {} /\ PollConnect

\* async_get_data reaches its next `await self.async_execute_command(...)`
RacePollIssue ==
    /\ pc = "get_data"
    /\ idx < Len(ReadCommands)
    /\ "poll" \notin inflight
    /\ MayIssue("poll")
    /\ inflight' = inflight \cup {"poll"}
    /\ wire' = Push(wire, "poll", ReadCommands[idx + 1])
    /\ sent' = Append(sent, ReadCommands[idx + 1])
    /\ UNCHANGED <<aside, host, act, module, HAS_ASYNCSSH, HAS_PARAMIKO, _conn, conns, pc, idx,
                   enable, resp, data, faults, filledBefore, last>>

\* the response of the poll's command arrives; the `if` and its assignment
RacePollReceive ==
    /\ pc = "get_data"
    /\ "poll" \in inflight
    /\ LET command == ReadCommands[idx + 1]
           r == async_execute_command(Normal(command), "ok")
       IN /\ CanOpen(r)
          /\ _conn' = r.conn
          /\ conns' = r.conns
          /\ last' = Call("async_execute_command", "async_get_data", command,
                          Normal(command), r, FALSE)
          /\ idx' = idx + 1
          /\ resp' = Append(resp, r.ret)
          /\ data' = StoreResponse(idx + 1, data, r.ret)
          /\ pc' = AfterCommand(idx + 1, r.ret)
    /\ inflight' = inflight \ {"poll"}
    /\ UNCHANGED <<aside, host, act, wire, module, HAS_ASYNCSSH, HAS_PARAMIKO, enable, sent,
                   faults, filledBefore>>

\* async_turn_on / async_turn_off: async_toggle_guest_ssid(en) is called
RaceToggleStart ==
    /\ act.pc = "idle"
    /\ \E en \in BOOLEAN : act' = [pc |-> "toggle", idx |-> 0, enable |-> en]
    /\ UNCHANGED <<aside, host, inflight, wire, module, HAS_ASYNCSSH, HAS_PARAMIKO, _conn, conns,
                   pc, idx, enable, sent, resp, data, faults, filledBefore, last>>

\* the toggle sends its next command
RaceToggleIssue ==
    /\ act.pc = "toggle"
    /\ MayIssue("action")
    /\ act' = [act EXCEPT !.pc = "toggle_wait"]
    /\ inflight' = inflight \cup {"action"}
    /\ wire' = Push(wire, "action", ToggleCommands(act.enable)[act.idx + 1])
    /\ UNCHANGED <<aside, host, module, HAS_ASYNCSSH, HAS_PARAMIKO, _conn, conns, pc, idx, enable,
                   sent, resp, data, faults, filledBefore, last>>

\* the response of the toggle's command arrives and is dropped; the pause begins
RaceToggleReceive ==
    /\ act.pc = "toggle_wait"
    /\ LET command == ToggleCommands(act.enable)[act.idx + 1]
           r == async_execute_command(Silent, "ok")
       IN /\ CanOpen(r)
          /\ _conn' = r.conn
          /\ conns' = r.conns
          /\ last' = Call("async_execute_command", "async_toggle_guest_ssid", command,
                          Silent, r, FALSE)
    /\ act' = [act EXCEPT !.pc = "toggle_sleep"]
    /\ inflight' = inflight \ {"action"}
    /\ UNCHANGED <<aside, host, wire, module, HAS_ASYNCSSH, HAS_PARAMIKO, pc, idx, enable, sent,
                   resp, data, faults, filledBefore>>

\* the pause is over: the next command, or `return True` after the fifth
RaceToggleWake ==
    /\ act.pc = "toggle_sleep"
    /\ act' = IF act.idx + 1 = Len(ToggleCommands(act.enable)) THEN Resting
              ELSE [act EXCEPT !.pc = "toggle", !.idx = act.idx + 1]
    /\ UNCHANGED <<aside, host, inflight, wire, module, HAS_ASYNCSSH, HAS_PARAMIKO, _conn, conns,
                   pc, idx, enable, sent, resp, data, faults, filledBefore, last>>

\* async_press: async_reboot sends "reboot"
RaceRebootIssue ==
    /\ act.pc = "idle"
    /\ MayIssue("action")
    /\ act' = [act EXCEPT !.pc = "reboot_wait"]
    /\ inflight' = inflight \cup {"action"}
    /\ wire' = Push(wire, "action", "reboot")
    /\ UNCHANGED <<aside, host, module, HAS_ASYNCSSH, HAS_PARAMIKO, _conn, conns, pc, idx, enable,
                   sent, resp, data, faults, filledBefore, last>>

\* the response of the reboot command arrives; async_reboot returns
RaceRebootReceive ==
    /\ act.pc = "reboot_wait"
    /\ LET r == async_execute_command(Silent, "ok")
       IN /\ CanOpen(r)
          /\ _conn' = r.conn
          /\ conns' = r.conns
          /\ last' = Call("async_execute_command", "async_reboot", "reboot", Silent, r,
                          RebootResult(r))
    /\ act' = Resting
    /\ inflight' = inflight \ {"action"}
    /\ UNCHANGED <<aside, host, wire, module, HAS_ASYNCSSH, HAS_PARAMIKO, pc, idx, enable, sent,
                   resp, data, faults, filledBefore>>

NextRace ==
    \/ RaceConnect
    \/ GetDataStart
    \/ RacePollIssue
    \/ RacePollReceive
    \/ GetDataReturn
    \/ RaceToggleStart
    \/ RaceToggleIssue
    \/ RaceToggleReceive
    \/ RaceToggleWake
    \/ RaceRebootIssue
    \/ RaceRebootReceive

SpecRace == Init /\ [][NextRace]_vars

----------------------------------------------------------------------------
(* The parsers taken alone: a device output is drawn, then a parser is      *)
(* applied to it.  A parser is given the output of its own command or a     *)
(* text that carries none of the labels (kind "neutral").                   *)

\* longest text of CPU lines drawn
MaxLines == 3
\* most client blocks in a text drawn
MaxBlocks == 2
\* most days in an uptime line drawn
MaxDays == 2

\* all sequences over S of length 0..n
RECURSIVE SeqsUpTo(_, _)
SeqsUpTo(S, n) ==
    IF n = 0 THEN {<<>>}
    ELSE LET shorter == SeqsUpTo(S, n - 1)
         IN shorter \cup {Append(s, x) : s \in {t \in shorter : Len(t) = n - 1}, x \in S}

RECURSIVE Flatten(_)
Flatten(ss) == IF Len(ss) = 0 THEN <<>> ELSE Head(ss) \o Flatten(Tail(ss))

NeutralTexts ==
    {<<>>, UnmatchedOutput,
     << Line("banner", "Welcome to NWA50AX"), Line("% command", "not found") >>}

VersionTexts ==
    {VersionOutput, << Line("model", "NWA50AX") >>,
     << Line("build date", "2024-05-20"), Line("banner", "Welcome to NWA50AX") >>}

Hours == {0, 5, 23}
Minutes == {0, 34, 59}
Seconds == {0, 40, 59}

UptimeTexts ==
    {<< Line("days time", <<d, h, m, s>>) >> :
        d \in 0..MaxDays, h \in Hours, m \in Minutes, s \in Seconds}
    \cup {<< Line("time", <<h, m, s>>) >> : h \in Hours, m \in Minutes, s \in Seconds}
    \cup {<< Line("time", <<h, 0, 0>>), Line("days time", <<d, 5, 34, 40>>) >> :
            h \in Hours, d \in 0..MaxDays}

CpuLines ==
    {Line(l, v) : l \in {"CPU core utilization", "CPU core utilization for 1 min",
                         "CPU core utilization for 5 min"},
                  v \in {10, 20, 30}}

CpuTexts == SeqsUpTo(CpuLines, MaxLines) \cup {CpuOutput}

MemoryTexts == {MemOutput, << Line("memory usage", 0) >>}

\* MAC values: lowercase, mixed case, uppercase, one that stops at a character
\* the pattern does not admit, one that starts with such a character
Macs ==
    {<<"a", "4", ":", "b", "c">>, <<"a", "4", ":", "B", "c">>, <<"A", "4", ":", "B", "C">>,
     <<"a", "4", "-", "b", "c">>, <<"z", "z">>}

\* an "index:" line and what follows it up to the next one
ClientBlocks ==
    {<< Line("index", 1) >>, << Line("index", 1), Line("IPv4", "192.168.1.50") >>}
    \cup {<< Line("index", 1), Line("MAC", m) >> : m \in Macs}
    \cup {<< Line("index", 1), Line("MAC", m), Line("IPv4", "192.168.1.50") >> : m \in Macs}

ClientsTexts == {Flatten(bs) : bs \in SeqsUpTo(ClientBlocks, MaxBlocks)} \cup {ClientsOutput}

InterfaceTexts ==
    {InterfaceOutput,
     << Line("interface", [name |-> "lan", status |-> "Down", ip |-> "n/a", mask |-> "n/a"]) >>}

WlanTexts ==
    {WlanOutput,
     << Line("slot", "slot1"), Line("Activate", "no"), Line("Band", "2.4G") >>,
     << Line("slot", "slot2"), Line("Activate", "yes"), Line("Band", "5G"),
        Line("SSID_profile", "Guest") >>}

PortTexts ==
    {PortOutput,
     << Line("port", [status |-> <<"Down">>, tx_rate |-> 0, rx_rate |-> 0,
                      uptime |-> "00:00:00", tx_bytes |-> 0, rx_bytes |-> 0]) >>}

Kinds == {"neutral", "version", "uptime", "cpu", "memory", "clients",
          "interfaces", "wlan", "port"}

TextsOf(kind) ==
    CASE kind = "neutral" -> NeutralTexts
      [] kind = "version" -> VersionTexts
      [] kind = "uptime" -> UptimeTexts
      [] kind = "cpu" -> CpuTexts
      [] kind = "memory" -> MemoryTexts
      [] kind = "clients" -> ClientsTexts
      [] kind = "interfaces" -> InterfaceTexts
      [] kind = "wlan" -> WlanTexts
      [] kind = "port" -> PortTexts

InitParse ==
    /\ \E m \in Modules, a \in BOOLEAN, p \in BOOLEAN :
          LET flags == ImportFlags(m, a, p)
          IN /\ ~InitRaises(flags)
             /\ module = m
             /\ HAS_ASYNCSSH = flags.asyncssh
             /\ HAS_PARAMIKO = flags.paramiko
    /\ _conn = NoConn
    /\ conns = {}
    /\ pc = "idle"
    /\ idx = 0
    /\ enable = FALSE
    /\ sent = <<>>
    /\ resp = <<>>
    /\ data = EmptyDict
    /\ faults = 0
    /\ filledBefore = FALSE
    /\ last = Call("__init__", "host", "", NoOutcome, Base, FALSE)
    /\ NoEntry
    /\ NoAction
    /\ \E kind \in Kinds : \E lines \in TextsOf(kind) :
          text = [kind |-> kind, lines |-> lines]
    /\ parsed = NoResult
    /\ flow = NoFlow

\* parser `name` is handed the text and returns `result`
Apply(name, kind, result) ==
    /\ parsed.parser = "none"
    /\ text.kind \in {kind, "neutral"}
    /\ parsed' = [parser |-> name, result |-> result]
    /\ UNCHANGED <<object, host, race, text, flow>>

ParseVersion == Apply("_parse_version", "version", _parse_version(text.lines))
ParseUptime == Apply("_parse_uptime", "uptime", _parse_uptime(text.lines))
ParseCpu == Apply("_parse_cpu", "cpu", _parse_cpu(text.lines))
ParseMemory == Apply("_parse_memory", "memory", _parse_memory(text.lines))
ParseClients == Apply("_parse_clients", "clients", _parse_clients(text.lines))
ParseInterfaces == Apply("_parse_interfaces", "interfaces", _parse_interfaces(text.lines))
ParseWlan == Apply("_parse_wlan", "wlan", _parse_wlan(text.lines))
ParsePortStatus == Apply("_parse_port_status", "port", _parse_port_status(text.lines))

NextParse ==
    \/ ParseVersion
    \/ ParseUptime
    \/ ParseCpu
    \/ ParseMemory
    \/ ParseClients
    \/ ParseInterfaces
    \/ ParseWlan
    \/ ParsePortStatus

SpecParse == InitParse /\ [][NextParse]_vars

----------------------------------------------------------------------------
(* Properties of the command runner and the connection, of Spec *)

\* C1: async_execute_command never raises to its caller, whoever calls it and
\* whatever the transport does: it returns the text the command printed, or
\* None.
C1_ExecuteNeverRaises ==
    last.op = "async_execute_command" =>
        /\ ~last.raised
        /\ last.ret = None \/ last.ret = Some(last.stdout)

\* a command timed out on the device and the call came back with None
C1_Witness ==
    /\ last.op = "async_execute_command"
    /\ last.kind = "timeout"
    /\ last.contacted
    /\ last.ret = None
    /\ ~last.raised

\* C2 as stated: with no session handle held, async_execute_command returns
\* None on every transport configuration and does not contact the device.
C2_NoSessionAlwaysAbsent ==
    (last.op = "async_execute_command" /\ last.connBefore = NoConn) =>
        /\ last.ret = None
        /\ ~last.contacted

\* C2, amended: with no session handle held, async_execute_command returns
\* None without contacting the device when the module's paramiko flag is not
\* True; when it is True the device is contacted over a connection opened for
\* this one command, and the call returns what the command printed when that
\* connection was established and the command ran, None otherwise.
C2_NoSessionByTransport ==
    (last.op = "async_execute_command" /\ last.connBefore = NoConn) =>
        IF HAS_PARAMIKO = "True"
        THEN /\ last.path = "temporary"
             /\ last.contacted
             /\ last.ret = IF last.opened /\ last.kind \in {"ok", "exit_nonzero"}
                           THEN Some(last.stdout) ELSE None
        ELSE /\ last.ret = None
             /\ ~last.contacted

\* no handle is held and the command's text came back over a connection of
\* its own
C2_Witness ==
    /\ last.op = "async_execute_command"
    /\ last.connBefore = NoConn
    /\ HAS_PARAMIKO = "True"
    /\ last.opened
    /\ Truthy(last.ret)

\* C3 as stated: a command the device ends with a non-zero exit status yields
\* None on both transport paths.
C3_NonZeroExitIsAbsent ==
    (last.op = "async_execute_command" /\ last.kind = "exit_nonzero") => last.ret = None

\* C4 as stated: async_disconnect never raises, and after any call of it the
\* session handle is None.
C4_DisconnectAlwaysClears ==
    last.op = "async_disconnect" =>
        /\ ~last.raised
        /\ _conn = NoConn

\* C5 as stated: async_connect never raises; when it returns True a session
\* handle is held; when connecting fails it returns False.
C5_ConnectTrueHoldsHandle ==
    last.op = "async_connect" =>
        /\ ~last.raised
        /\ last.flag => _conn # NoConn
        /\ last.kind # "ok" => ~last.flag

\* C6 as stated: running a command leaves the session handle as it was, and
\* no operation other than async_connect establishes a connection.
C6_OnlyConnectOpens ==
    /\ last.op = "async_execute_command" => last.conn = last.connBefore
    /\ last.opened => last.op = "async_connect"

\* C6, amended: no operation other than async_connect changes the session
\* handle to a connection, and running a command (directly, or for a read, a
\* reboot or a guest toggle) leaves the handle as it was; the one connection
\* made outside async_connect is the one the blocking runner opens for a
\* single command when the paramiko flag is True and no handle is held, and
\* it never becomes the session handle.
C6_NoReconnect ==
    /\ last.op = "async_execute_command" =>
          /\ last.conn = last.connBefore
          /\ _conn = last.connBefore
    /\ (last.conn # last.connBefore /\ last.conn # NoConn) => last.op = "async_connect"
    /\ (last.opened /\ last.op # "async_connect") =>
          /\ last.op = "async_execute_command"
          /\ last.path = "temporary"
          /\ last.connBefore = NoConn
          /\ HAS_PARAMIKO = "True"

\* the session is gone, a read asks the device for a section, the transport
\* fails and the handle is still None
C6_Witness ==
    /\ last.op = "async_execute_command"
    /\ last.caller = "async_get_data"
    /\ last.connBefore = NoConn
    /\ HAS_ASYNCSSH
    /\ last.ret = None
    /\ _conn = NoConn
    /\ conns = {}

----------------------------------------------------------------------------
(* Properties of the aggregator, of SpecPoll and SpecKeep *)

\* the snapshot a read has to return for the responses rs, the k-th response
\* counting as a success when ok[k] holds
SnapshotOf(rs, ok) ==
    LET statusKeys == (IF ok[2] THEN {"uptime"} ELSE {})
                        \cup (IF ok[3] THEN {"cpu"} ELSE {})
                        \cup (IF ok[4] THEN {"memory"} ELSE {})
        interfaces == IF ok[6] THEN _parse_interfaces(rs[6].text) ELSE EmptyDict
    IN [device_info |-> IF ok[1] THEN _parse_version(rs[1].text) ELSE EmptyDict,
        status |-> [k \in statusKeys |->
                      IF k = "uptime" THEN _parse_uptime(rs[2].text)
                      ELSE IF k = "cpu" THEN _parse_cpu(rs[3].text)
                      ELSE _parse_memory(rs[4].text)],
        clients |-> IF ok[5] THEN _parse_clients(rs[5].text) ELSE <<>>,
        network |-> IF ok[8]
                    THEN Put(interfaces, "port", _parse_port_status(rs[8].text))
                    ELSE interfaces,
        radio |-> IF ok[7] THEN _parse_wlan(rs[7].text) ELSE EmptyDict]

\* C7: a read issues exactly the eight read-only commands, one at a time and
\* in this order; an absent response does not stop the later commands.
C7_EightCommandsInOrder ==
    LET eight == << "show version", "show system uptime", "show cpu all",
                    "show mem status", "show wireless-hal station info",
                    "show interface all", "show wlan all", "show port status" >>
    IN /\ pc = "get_data" => (idx < 8 /\ sent = SubSeq(eight, 1, idx))
       /\ pc = "get_data_done" => sent = eight

\* the first command came back absent and all eight were issued
C7_Witness ==
    /\ pc = "get_data_done"
    /\ Len(resp) = 8
    /\ resp[1] = None
    /\ resp[5] = None
    /\ Len(sent) = 8

\* C8: async_get_data never raises, and the snapshot it returns has exactly
\* the five top-level keys device_info, status, clients, network and radio.
C8_FiveKeys ==
    /\ pc = "get_data_done" =>
          DOMAIN data = {"device_info", "status", "clients", "network", "radio"}
    /\ last.op = "async_get_data" => ~last.raised

\* every command of a read, the port status included, returned its text
C8_Witness ==
    /\ pc = "get_data_done"
    /\ Len(resp) = 8
    /\ \A k \in 1..8 : Truthy(resp[k])
    /\ "port" \in DOMAIN data.network

\* C9 as stated: a section whose command returned None holds its zero value
\* and a section whose command returned a text holds the parser's result.
C9_SectionsByAbsence ==
    (pc = "get_data_done" /\ Len(resp) = 8) => data = SnapshotOf(resp, [k \in 1..8 |-> resp[k] # None])

\* C9, amended: a section whose command returned None or the empty text
\* holds its zero value (empty mapping, empty list, no key in status, no port
\* in network); a section whose command returned a non-empty text holds what
\* the parser makes of that text; when every response is absent or empty all
\* five sections hold their zero values.
C9_SectionsByTruthiness ==
    (pc = "get_data_done" /\ Len(resp) = 8) =>
        /\ data = SnapshotOf(resp, [k \in 1..8 |-> Truthy(resp[k])])
        /\ (\A k \in 1..8 : ~Truthy(resp[k])) =>
               data = [device_info |-> EmptyDict, status |-> EmptyDict, clients |-> <<>>,
                       network |-> EmptyDict, radio |-> EmptyDict]

\* one read with an absent response, an empty text and a parsed text
C9_Witness ==
    /\ pc = "get_data_done"
    /\ Len(resp) = 8
    /\ resp[1] = Some(<<>>)
    /\ resp[2] = None
    /\ Truthy(resp[3])
    /\ data.device_info = EmptyDict
    /\ DOMAIN data.status = {"cpu"}

\* C10: every read builds its snapshot anew: it starts from the zero values
\* whatever the previous snapshot held, and a section whose command fails in
\* this read is at its zero value in this read's snapshot.
C10_SnapshotBuiltAnew ==
    /\ (pc = "get_data" /\ idx = 0) =>
          data = [device_info |-> EmptyDict, status |-> EmptyDict, clients |-> <<>>,
                  network |-> EmptyDict, radio |-> EmptyDict]
    /\ (pc = "get_data_done" /\ Len(resp) = 8) =>
          /\ ~Truthy(resp[1]) => data.device_info = EmptyDict
          /\ ~Truthy(resp[2]) => "uptime" \notin DOMAIN data.status
          /\ ~Truthy(resp[3]) => "cpu" \notin DOMAIN data.status
          /\ ~Truthy(resp[4]) => "memory" \notin DOMAIN data.status
          /\ ~Truthy(resp[5]) => data.clients = <<>>
          /\ ~Truthy(resp[6]) => "ip_address" \notin DOMAIN data.network
          /\ ~Truthy(resp[7]) => data.radio = EmptyDict
          /\ ~Truthy(resp[8]) => "port" \notin DOMAIN data.network

\* an earlier read filled every section, and in this read the version and
\* the client list failed
C10_Witness ==
    /\ filledBefore
    /\ pc = "get_data_done"
    /\ Len(resp) = 8
    /\ resp[1] = None
    /\ resp[5] = None
    /\ data.device_info = EmptyDict
    /\ data.clients = <<>>

\* C28: in a read an empty text has the same effect on the snapshot as an
\* absent response: the parser is not applied and the section keeps its zero
\* value, so the parser's defaults (such as "Unknown") do not appear.
C28_EmptyTextAsAbsence ==
    (pc = "get_data_done" /\ Len(resp) = 8) =>
        LET absent == [k \in 1..8 |-> IF resp[k] = Some(<<>>) THEN None ELSE resp[k]]
        IN /\ data = SnapshotOf(absent, [k \in 1..8 |-> absent[k] # None])
           /\ resp[1] = Some(<<>>) => data.device_info = EmptyDict
           /\ resp[2] = Some(<<>>) => "uptime" \notin DOMAIN data.status
           /\ resp[3] = Some(<<>>) => "cpu" \notin DOMAIN data.status
           /\ resp[4] = Some(<<>>) => "memory" \notin DOMAIN data.status
           /\ resp[5] = Some(<<>>) => data.clients = <<>>
           /\ resp[6] = Some(<<>>) => DOMAIN data.network \subseteq {"port"}
           /\ resp[7] = Some(<<>>) => data.radio = EmptyDict
           /\ resp[8] = Some(<<>>) => "port" \notin DOMAIN data.network

\* a read in which the version, the wlan and the port commands printed nothing
C28_Witness ==
    /\ pc = "get_data_done"
    /\ Len(resp) = 8
    /\ resp[1] = Some(<<>>)
    /\ resp[7] = Some(<<>>)
    /\ resp[8] = Some(<<>>)
    /\ data.device_info = EmptyDict
    /\ data.radio = EmptyDict
    /\ "port" \notin DOMAIN data.network

\* C29: the network section is built from two commands in order: when both
\* succeed it holds the interface fields (ip_address, netmask, interfaces) and
\* port together; when only the port command succeeds it holds only port;
\* when only the interface command succeeds it holds the interface fields and
\* no port key; the interface result never overwrites the port record.
C29_NetworkFromTwoCommands ==
    (pc = "get_data_done" /\ Len(resp) = 8) =>
        LET fields == {"ip_address", "netmask", "interfaces"}
            iface == Truthy(resp[6])
            port == Truthy(resp[8])
        IN /\ DOMAIN data.network = (IF iface THEN fields ELSE {})
                                       \cup (IF port THEN {"port"} ELSE {})
           /\ iface => \A f \in fields :
                          data.network[f] = _parse_interfaces(resp[6].text)[f]
           /\ port => data.network.port = _parse_port_status(resp[8].text)

\* both commands succeeded and the section holds the four keys
C29_Witness ==
    /\ pc = "get_data_done"
    /\ Len(resp) = 8
    /\ resp[6] = Some(InterfaceOutput)
    /\ resp[8] = Some(PortOutput)
    /\ DOMAIN data.network = {"ip_address", "netmask", "interfaces", "port"}
    /\ data.network.port.speed = "1000M"
    /\ data.network.ip_address = "192.168.1.2"

----------------------------------------------------------------------------
(* Properties of the mutating actions, of Spec *)

\* C11: async_reboot sends one command, "reboot"; it returns True exactly when
\* the runner returned something other than None (any text, the empty one
\* included), False when the runner returned None, and it never raises.
C11_RebootResult ==
    last.caller = "async_reboot" =>
        /\ last.op = "async_execute_command"
        /\ last.command = "reboot"
        /\ ~last.raised
        /\ last.flag = (last.ret # None)

\* the reboot command printed nothing and async_reboot still returned True
C11_Witness ==
    /\ last.caller = "async_reboot"
    /\ last.ret = Some(<<>>)
    /\ last.flag

\* C12: async_toggle_guest_ssid(enable) sends the five commands configure
\* terminal, wlan-ssid-profile Guest, the schedule command, exit, write in
\* this order, pausing after each; the schedule command is "no ssid-schedule"
\* when enable is true and "ssid-schedule" when it is false; the call returns
\* True when the sequence completed without an exception.
C12_ToggleSequence ==
    LET five == << "configure terminal", "wlan-ssid-profile Guest",
                   IF enable THEN "no ssid-schedule" ELSE "ssid-schedule",
                   "exit", "write" >>
    IN /\ pc = "toggle" => (idx < 5 /\ sent = SubSeq(five, 1, idx))
       /\ pc = "toggle_sleep" => (idx < 5 /\ sent = SubSeq(five, 1, idx + 1))
       /\ pc = "toggle_done" => (idx = 5 /\ sent = five)
       /\ last.op = "async_toggle_guest_ssid" => (last.flag /\ ~last.raised)

\* the guest SSID was enabled: all five commands are out, the last of them
\* came back absent, and the sequence is complete all the same
C12_Witness ==
    /\ pc = "toggle_done"
    /\ enable
    /\ sent[3] = "no ssid-schedule"
    /\ Len(sent) = 5
    /\ last.command = "write"
    /\ last.ret = None

\* C20 as stated: at every moment the object has at most one open connection
\* to the device.
C20_AtMostOneConnection == Cardinality(conns) <= 1

----------------------------------------------------------------------------
(* Properties of the plugin, of SpecPlugin *)

\* C13: the state the Guest SSID switch shows is host-side memory: it starts
\* as off, it changes only when a toggle called by turn_on / turn_off has
\* returned success (to on for turn_on, to off for turn_off) or when the
\* entity is created (off); a poll and the content of a snapshot never
\* change it.
C13_SwitchStateHostSide ==
    /\ ~is_on
    /\ [][ (is_on' # is_on) =>
              \/ /\ pc = "toggle_done"
                 /\ idx = 5
                 /\ is_on' = enable
              \/ /\ entry = "connected"
                 /\ entry' = "loaded"
                 /\ ~is_on' ]_vars

\* the switch was turned on, a poll has come back since, and it still shows on
C13_Witness ==
    /\ is_on
    /\ commanded = "on"
    /\ entry = "loaded"
    /\ coordinator.update = "ok"
    /\ last.op = "async_get_data"

\* C14 as stated: every connection failure at setup (no SSH library,
\* authentication or network failure, connect timeout) ends async_setup_entry
\* with ConfigEntryNotReady, with no coordinator created and no platform set up.
C14_SetupFailureNotReady ==
    setup.cause \in {"no_library", "refused", "timeout"} =>
        /\ setup.raised = "ConfigEntryNotReady"
        /\ ~coordinator.exists
        /\ ~platforms

C16_TimeoutNoRetry ==
    /\ coordinator.fetches <= 1
    /\ coordinator.update = "UpdateFailed" => pc \notin {"get_data", "get_data_done"}
    /\ pc \in {"get_data", "get_data_done"} =>
          (coordinator.update = "running" /\ coordinator.fetches = 1)

\* a scheduled refresh of a loaded entry timed out after a command of the
\* fetch had been answered
C16_Witness ==
    /\ coordinator.update = "UpdateFailed"
    /\ coordinator.fetches = 1
    /\ entry = "loaded"
    /\ last.caller = "async_get_data"
    /\ pc = "idle"

\* C17: no poll and no entity action is started for an entry before
\* async_connect has returned True on the entry's API object.
C17_ConnectBeforeUse ==
    (\/ pc # "idle"
     \/ coordinator.update # "none"
     \/ last.op \in {"async_get_data", "async_toggle_guest_ssid"}
     \/ last.caller \in {"async_get_data", "async_reboot", "async_toggle_guest_ssid"})
        => connectedOk

\* the reboot button was pressed on a loaded entry
C17_Witness ==
    /\ entry = "loaded"
    /\ last.caller = "async_reboot"
    /\ connectedOk

\* C19 as stated: the switch's last commanded state is kept per install, so a
\* switch entity created again after a successful turn_on shows on.
C19_TogglePersisted ==
    (entry = "loaded" /\ commanded = "on") => is_on

\* C27: no session is left open for an entry that is not set up: when
\* async_setup_entry fails after async_connect succeeded (the first refresh
\* fails), the session it opened has been disconnected by the time the
\* failure is reported.
C27_FailedSetupClosesSession ==
    (entry = "setup_retry" /\ setup.cause = "refresh_failed") =>
        (_conn = NoConn /\ _conn \notin conns)

----------------------------------------------------------------------------
(* Properties of the guest switch, of SpecSwitch *)

\* C26: async_toggle_guest_ssid returns True for every combination of
\* outcomes of its five commands, all five returning None included; so a
\* turn_on or turn_off changes the state the switch shows even when no command
\* reached the device.
C26_ToggleAlwaysTrue ==
    /\ pc = "toggle_done" => (idx = 5 /\ Len(resp) = 5)
    /\ last.op = "async_toggle_guest_ssid" =>
          /\ last.flag
          /\ is_on = (last.caller = "async_turn_on")
          /\ commanded = (IF last.caller = "async_turn_on" THEN "on" ELSE "off")

\* the switch was turned on, shows on, and each of the five commands
\* returned None
C26_Witness ==
    /\ last.op = "async_toggle_guest_ssid"
    /\ last.caller = "async_turn_on"
    /\ last.flag
    /\ resp = <<None, None, None, None, None>>
    /\ is_on

----------------------------------------------------------------------------
(* Properties of the setup wizard, of SpecFlow *)

\* C30 as stated: the wizard creates an entry only after validate_input
\* connected with success and fetched a snapshot; when async_connect returns
\* False or anything raises during validation, validate_input raises
\* CannotConnect, the form is shown again with the cannot_connect error, and
\* no entry is created.
C30_AnyFailureIsCannotConnect ==
    /\ flow.created => (flow.connected /\ flow.fetched)
    /\ (last.caller = "validate_input" /\ (last.raised \/ (last.op = "async_connect" /\ ~last.flag)))
          => /\ flow.raised = "CannotConnect"
             /\ flow.step = "form"
             /\ flow.errors = "cannot_connect"
             /\ ~flow.created

\* C30: the wizard creates an entry only after validate_input connected with
\* success and fetched a snapshot; when async_connect returns False or raises,
\* or async_disconnect raises, validate_input raises CannotConnect and the form
\* is shown again with the cannot_connect error; when the constructor of the
\* API object raises (ImportError, no SSH library), that exception leaves
\* validate_input as it is and the form is shown again with the unknown
\* error; in both cases no entry is created.
C30_EntryOnlyAfterValidation ==
    /\ flow.created => (flow.connected /\ flow.fetched /\ flow.raised = "none")
    /\ (last.caller = "validate_input" /\ (last.raised \/ (last.op = "async_connect" /\ ~last.flag)))
          => /\ flow.step = "form"
             /\ ~flow.created
             /\ IF last.op = "__init__"
                THEN flow.raised = "ImportError" /\ flow.errors = "unknown"
                ELSE flow.raised = "CannotConnect" /\ flow.errors = "cannot_connect"
    /\ flow.raised # "none" => (flow.step = "form" /\ ~flow.created)

\* async_connect returned False and the form is shown with cannot_connect
C30_Witness ==
    /\ last.caller = "validate_input"
    /\ last.op = "async_connect"
    /\ ~last.flag
    /\ flow.step = "form"
    /\ flow.errors = "cannot_connect"
    /\ ~flow.created

----------------------------------------------------------------------------
(* Properties of concurrent use, of SpecRace *)

\* C18: nothing enforces mutual exclusion on the session: a coroutine that
\* has reached its next command can send it whatever the other coroutine has
\* in flight, so a poll and a manual action (toggle or reboot) can both have
\* a command in flight, and a command of the poll can go out between two
\* commands of the toggle's sequence.
C18_NoMutualExclusion ==
    /\ (pc = "get_data" /\ idx < 8 /\ "poll" \notin inflight) => ENABLED RacePollIssue
    /\ act.pc = "toggle" => ENABLED RaceToggleIssue
    /\ act.pc = "idle" => ENABLED RaceRebootIssue

\* on a held session the toggle sent its first command, the poll sent one
\* before the toggle's second, and both now wait for a response
C18_Witness ==
    /\ _conn # NoConn
    /\ inflight = {"poll", "action"}
    /\ act.pc = "toggle_wait"
    /\ Len(wire) >= 3
    /\ LET n == Len(wire)
       IN /\ wire[n - 2] = [owner |-> "action", command |-> "configure terminal"]
          /\ wire[n - 1].owner = "poll"
          /\ wire[n] = [owner |-> "action", command |-> "wlan-ssid-profile Guest"]

----------------------------------------------------------------------------
(* Properties of the parsers, of SpecParse *)

\* C21 as stated: _parse_uptime yields 105280 seconds on "1 days 05:34:40",
\* 20080 on "05:34:40" and 0 on a text it does not recognise; "D days HH:MM:SS"
\* yields D*86400 + HH*3600 + MM*60 + SS and "HH:MM:SS" yields
\* HH*3600 + MM*60 + SS.
C21_UptimeAsStated ==
    parsed.parser = "_parse_uptime" =>
        /\ text.lines = << Line("days time", <<1, 5, 34, 40>>) >> => parsed.result = 105280
        /\ text.lines = << Line("time", <<5, 34, 40>>) >> => parsed.result = 20080
        /\ text.kind = "neutral" => parsed.result = 0
        /\ \A d \in 0..MaxDays, h \in Hours, m \in Minutes, s \in Seconds :
              /\ text.lines = << Line("days time", <<d, h, m, s>>) >>
                    => parsed.result = d * 86400 + h * 3600 + m * 60 + s
              /\ text.lines = << Line("time", <<h, m, s>>) >>
                    => parsed.result = h * 3600 + m * 60 + s

\* C21: _parse_uptime yields 106480 seconds on "1 days 05:34:40" (1*86400 +
\* 5*3600 + 34*60 + 40), 20080 on "05:34:40" and 0 on a text it does not
\* recognise; "D days HH:MM:SS" yields D*86400 + HH*3600 + MM*60 + SS and
\* "HH:MM:SS" yields HH*3600 + MM*60 + SS.
C21_UptimeSeconds ==
    parsed.parser = "_parse_uptime" =>
        /\ text.lines = << Line("days time", <<1, 5, 34, 40>>) >> => parsed.result = 106480
        /\ text.lines = << Line("time", <<5, 34, 40>>) >> => parsed.result = 20080
        /\ text.kind = "neutral" => parsed.result = 0
        /\ \A d \in 0..MaxDays, h \in Hours, m \in Minutes, s \in Seconds :
              /\ text.lines = << Line("days time", <<d, h, m, s>>) >>
                    => parsed.result = d * 86400 + h * 3600 + m * 60 + s
              /\ text.lines = << Line("time", <<h, m, s>>) >>
                    => parsed.result = h * 3600 + m * 60 + s

\* the uptime with a day in it has been parsed
C21_Witness ==
    /\ parsed.parser = "_parse_uptime"
    /\ text.lines = << Line("days time", <<1, 5, 34, 40>>) >>
    /\ parsed.result = 106480

\* C22: _parse_cpu reports as current the floor of the mean of the per-core
\* current utilizations (10, 20 and 30 give 20), lists in cores the per-core
\* current values in input order, and computes avg_1min and avg_5min the same
\* way from the 1-minute and the 5-minute lines only; a 1-minute or 5-minute
\* line is never counted as a current line.
C22_CpuFloorMean ==
    parsed.parser = "_parse_cpu" =>
        LET of(l) == SelectSeq(text.lines, LAMBDA ln : ln.label = l)
            cur == of("CPU core utilization")
            one == of("CPU core utilization for 1 min")
            five == of("CPU core utilization for 5 min")
            total(ls) == SumSeq([i \in 1..Len(ls) |-> ls[i].val])
            floorMean(x, ls) ==
                IF Len(ls) = 0 THEN x = 0
                ELSE x * Len(ls) <= total(ls) /\ total(ls) < (x + 1) * Len(ls)
        IN /\ parsed.result.cores = [i \in 1..Len(cur) |-> cur[i].val]
           /\ floorMean(parsed.result.current, cur)
           /\ floorMean(parsed.result.avg_1min, one)
           /\ floorMean(parsed.result.avg_5min, five)
           /\ parsed.result.cores = <<10, 20, 30>> => parsed.result.current = 20

\* three cores with all three kinds of lines have been parsed
C22_Witness ==
    /\ parsed.parser = "_parse_cpu"
    /\ text.lines = CpuOutput
    /\ parsed.result = [current |-> 20, avg_1min |-> 23, avg_5min |-> 25,
                        cores |-> <<10, 20, 30>>]

\* the positions of the "index:" lines of the text and, for each, whether a
\* MAC line the pattern matches follows before the next "index:" line
IndexLines == SelectSeq([i \in 1..Len(text.lines) |-> i],
                        LAMBDA i : text.lines[i].label = "index")

MacAfter(p) ==
    LET ends == {q \in (p + 1)..Len(text.lines) : text.lines[q].label = "index"}
        last_line == IF ends = {} THEN Len(text.lines) ELSE Min(ends) - 1
        at == {q \in (p + 1)..last_line :
                  /\ text.lines[q].label = "MAC"
                  /\ text.lines[q].val[1] \in HexChars}
    IN IF at = {} THEN 0 ELSE Min(at)

\* C23: _parse_clients returns one record per "index:" block that contains a
\* MAC and none for a block without one, in input order: two blocks give two
\* records when both have a MAC and none when neither has; every record
\* returned has the mac field.
C23_OneRecordPerMacBlock ==
    parsed.parser = "_parse_clients" =>
        LET withMac == SelectSeq(IndexLines, LAMBDA p : MacAfter(p) # 0)
            first(chars, c) == Len(chars) >= 1 /\ UpperChar(chars[1]) = UpperChar(c)
        IN /\ Len(parsed.result) = Len(withMac)
           /\ \A i \in 1..Len(parsed.result) :
                 /\ "mac" \in DOMAIN parsed.result[i]
                 /\ first(parsed.result[i].mac, text.lines[MacAfter(withMac[i])].val[1])
                 /\ ("ip" \in DOMAIN parsed.result[i])
                      = (\E q \in (withMac[i] + 1)..Len(text.lines) :
                            /\ text.lines[q].label = "IPv4"
                            /\ \A z \in (withMac[i] + 1)..q : text.lines[z].label # "index")
           /\ Len(IndexLines) = 2 =>
                 /\ (\A k \in 1..2 : MacAfter(IndexLines[k]) # 0) => Len(parsed.result) = 2
                 /\ (\A k \in 1..2 : MacAfter(IndexLines[k]) = 0) => Len(parsed.result) = 0

\* of two blocks only the second has a MAC, and its record is the only one
C23_Witness ==
    /\ parsed.parser = "_parse_clients"
    /\ Len(IndexLines) = 2
    /\ MacAfter(IndexLines[1]) = 0
    /\ MacAfter(IndexLines[2]) # 0
    /\ Len(parsed.result) = 1
    /\ "ip" \notin DOMAIN parsed.result[1]
    /\ \E q \in 1..IndexLines[2] : text.lines[q].label = "IPv4"

\* C24: every MAC in a record returned by _parse_clients is in uppercase: a
\* lowercase or mixed-case MAC is normalized and an uppercase one is unchanged.
C24_MacUppercase ==
    parsed.parser = "_parse_clients" =>
        LET withMac == SelectSeq(IndexLines, LAMBDA p : MacAfter(p) # 0)
            written(i) == text.lines[MacAfter(withMac[i])].val
            lower == {"a", "b", "c", "d", "e", "f"}
        IN \A i \in 1..Len(parsed.result) :
              LET mac == parsed.result[i].mac
              IN /\ \A j \in 1..Len(mac) : mac[j] \notin lower
                 /\ \A j \in 1..Len(mac) :
                       IF written(i)[j] \in lower
                       THEN mac[j] # written(i)[j] /\ UpperChar(written(i)[j]) = mac[j]
                       ELSE mac[j] = written(i)[j]

\* a lowercase MAC and an uppercase MAC have been parsed in one text
C24_Witness ==
    /\ parsed.parser = "_parse_clients"
    /\ Len(parsed.result) = 2
    /\ text.lines[MacAfter(IndexLines[1])].val = <<"a", "4", ":", "b", "c">>
    /\ text.lines[MacAfter(IndexLines[2])].val = <<"A", "4", ":", "B", "C">>
    /\ parsed.result[1].mac = <<"A", "4", ":", "B", "C">>
    /\ parsed.result[2].mac = <<"A", "4", ":", "B", "C">>

\* C25: given the empty text or a text in which no known label matches, each
\* parser (_parse_version, _parse_uptime, _parse_cpu, _parse_memory,
\* _parse_clients, _parse_interfaces, _parse_wlan, _parse_port_status) returns,
\* without raising, its defaults: "Unknown" strings, zero numbers, empty lists,
\* false flags.
C25_DefaultsWhenNothingMatches ==
    (parsed.parser # "none" /\ text.kind = "neutral") =>
        parsed.result =
            CASE parsed.parser = "_parse_version" ->
                    [model |-> "Unknown", firmware |-> "Unknown", build_date |-> "Unknown"]
              [] parsed.parser = "_parse_uptime" -> 0
              [] parsed.parser = "_parse_cpu" ->
                    [current |-> 0, avg_1min |-> 0, avg_5min |-> 0, cores |-> <<>>]
              [] parsed.parser = "_parse_memory" -> 0
              [] parsed.parser = "_parse_clients" -> <<>>
              [] parsed.parser = "_parse_interfaces" ->
                    [ip_address |-> "Unknown", netmask |-> "Unknown", interfaces |-> <<>>]
              [] parsed.parser = "_parse_wlan" ->
                    [slot1_active |-> FALSE, slot1_band |-> "Unknown", slot1_ssids |-> <<>>,
                     slot2_active |-> FALSE, slot2_band |-> "Unknown", slot2_ssids |-> <<>>]
              [] parsed.parser = "_parse_port_status" ->
                    [status |-> <<"Unknown">>, speed |-> "Unknown", tx_bytes |-> 0,
                     rx_bytes |-> 0, tx_rate |-> 0, rx_rate |-> 0, uptime |-> "Unknown"]

\* the version parser has returned its defaults for a text without its labels
C25_Witness ==
    /\ parsed.parser = "_parse_version"
    /\ text.lines = UnmatchedOutput
    /\ parsed.result.model = "Unknown"

====
